---------------------------- MODULE Spec2Model ----------------------------
(***************************************************************************)
(* luxdb: a vector database server.  This module models                    *)
(*   - ReadWriteLock   (src/luxdb/knn_store.py), a threading read/write    *)
(*     lock built on one Condition,                                        *)
(*   - ExclusiveLock   (src/src/luxdb/index.py), the "exclusive states"    *)
(*     lock over add / resize / query,                                     *)
(*   - KNNStore        (src/src/luxdb/knn_store.py), the asyncio store,    *)
(*   - Server.connection (src/src/luxdb/server.py), the per-connection     *)
(*     loop.                                                               *)
(* Each part has its own variables, its own next-state relation and its    *)
(* own specification; the variables of the other parts stay as Init left   *)
(* them.                                                                   *)
(***************************************************************************)
EXTENDS Integers, Sequences, FiniteSets, TLC

(***************************************************************************)
(* Bounds of the model.                                                    *)
(***************************************************************************)
NumThreads == 3
NumExThreads == 2

NumConns == 2
MaxIndexes == 2
MaxLabel == 2
MaxCap == 2
MaxLeaks == 1
MaxFrames == 2
MaxCalls == 3
NumKeys == 2
NumTokens == 2
MaxLate == 1
MaxSignals == 2

Threads == 1..NumThreads
ExThreads == 1..NumExThreads
NoThread == 0
Conns == 1..NumConns
UIDs == 1..MaxIndexes
NoIndex == 0
Labels == 1..MaxLabel
Names == {"a", "b"}

VARIABLES
    \* ---- ReadWriteLock (src/luxdb/knn_store.py:93-151)
    readers,         \* self.readers
    read_condition,  \* self.read_condition: [owner, waiters]
    rw_pc,           \* position of each thread in the lock's methods
    rw_open,         \* environment: TRUE while new acquire_read calls may start
    rw_pending,      \* history: writers that were waiting when the thread's acquire_read started
    rw_held,         \* history: writers that held the lock when the thread's acquire_read started
    rw_saw,          \* history: the thread's acquire_read started while a writer held the lock
    rw_waited,       \* history: the thread's acquire_write had to wait for readers
    \* ---- ExclusiveLock (src/src/luxdb/index.py:13-89)
    state_lock,      \* self.state_lock: the thread that holds it, or NoThread
    condition,       \* self.condition: the threads blocked in Condition.wait
    locks,           \* self.locks: state -> TRUE when that Lock is locked
    counters,        \* self.counters: state -> int
    ex_pc,           \* position of each thread in acquire / release
    ex_req,          \* requested_state of the thread's current call
    ex_open,         \* environment: TRUE while new acquire calls may start
    ex_handover,     \* history: the states whose last holder released while the thread waited in acquire
    \* ---- KNNStore (src/src/luxdb/knn_store.py) and the Index objects it keeps
    indexes,         \* self.root['indexes']: name -> identity of the Index object, or NoIndex
    obj,             \* the Index objects: static parameters, in-memory payload, lock
    disk,            \* path / indexes / <uuid>.bin: the snapshot file of each Index object
    uuid_next,       \* the identity the next new Index object gets
    st_pc,           \* position of each connection's task in the operation it executes
    cmd,             \* the command the task executes
    target,          \* the Index object get_index returned to the task
    wbuf,            \* the payload the worker thread of the task started from
    result,          \* the outcome of the task's operation
    n_create,        \* environment: number of create_index commands issued
    st_overlap,      \* history: <<class, class>> of operations that were in progress on one index together
    st_added,        \* history: labels of the add_items calls that returned successfully to their client, per name
    st_failed,       \* history: names on which an add_items or resize_index call of a client failed
    st_journal,      \* history: what the task's operation has done to memory, snapshot and manifest, in order
    \* ---- Server (src/src/luxdb/server.py) and its connections
    inbox,           \* the frames a peer has written that the server has not read, per connection
    n_frames,        \* the number of frames the peer has written, per connection
    received,        \* history: the frames whose command the server has received, in order
    sent,            \* history: the frames whose command's result the server has written, in order
    outbox,          \* the frames the server has written that the peer has not read, per connection
    rejected,        \* history: the frame of the connection that raised InvalidToken, and when
    eos,             \* history: the close sentinel that ended the connection's loop
    now,             \* the clock, in seconds
    \* ---- Client (src/src/luxdb/client.py)
    cl_pc,           \* position of each client: in connect, in send_command, or between calls
    cl_secret,       \* self.secret
    cl_payload,      \* connect_command.payload
    cl_log,          \* history: per call, the reply on the wire and how the call ended
    \* ---- KNNStore of the thread-lock revision (src/luxdb/knn_store.py:157-329)
    lg_indexes,      \* self.indexes: the names that have an index
    lg_locks,        \* self.locks: the names that have an ExclusiveLock
    lg_file,         \* the file at self.path: whether it exists and the names pickled in it
    lg_pc,           \* position of each thread in the operation it executes
    lg_cmd,          \* the operation the thread executes and its name argument
    lg_res,          \* how the thread's operation ended: "" while it runs, "ok", or the exception
    \* ---- serve and Server.start (src/src/luxdb/server.py:68-110)
    sv_pc,           \* position of serve: "start", "create_server", "wait_closed", or "returned"
    sv_server,       \* self.server: "None", or the asyncio server with its sockets "open" or "closed"
    db_open,         \* TRUE until open_store has closed the manifest store
    sv_signals,      \* environment: number of SIGTERM / SIGINT signals delivered
    sv_errors,       \* history: number of signal handler runs that raised
    transport        \* per connection: "none" before accept, "open", or "lost"

rwVars == <<readers, read_condition, rw_pc, rw_open, rw_pending, rw_held, rw_saw, rw_waited>>

exVars == <<state_lock, condition, locks, counters, ex_pc, ex_req, ex_open, ex_handover>>

stVars == <<indexes, obj, disk, uuid_next, st_pc, cmd, target, wbuf, result, n_create,
            st_overlap, st_added, st_failed, st_journal>>

cliVars == <<cl_pc, cl_secret, cl_payload, cl_log>>
srvVars == <<inbox, n_frames, received, sent, outbox, rejected, eos, now, cliVars>>

lgVars == <<lg_indexes, lg_locks, lg_file, lg_pc, lg_cmd, lg_res>>

lifeVars == <<sv_pc, sv_server, db_open, sv_signals, sv_errors, transport>>

vars == <<rwVars, exVars, stVars, srvVars, lgVars, lifeVars>>

-----------------------------------------------------------------------------
(***************************************************************************)
(* ReadWriteLock.                                                          *)
(*                                                                         *)
(* read_condition is a Condition over a plain Lock.  owner is the thread   *)
(* that holds that Lock (NoThread when free); waiters are the threads      *)
(* blocked inside Condition.wait.  A thread that has been notified must    *)
(* take the Lock again before wait returns (rw_pc = "notified").           *)
(* acquire_read and release_read take and drop the Lock inside one call    *)
(* and touch nothing but readers in between, so each is one step that      *)
(* needs the Lock to be free.                                              *)
(***************************************************************************)
RWInit ==
    /\ readers = 0
    /\ read_condition = [owner |-> NoThread, waiters |-> {}]
    /\ rw_pc = [t \in Threads |-> "idle"]
    /\ rw_open = TRUE
    /\ rw_pending = [t \in Threads |-> {}]
    /\ rw_held = [t \in Threads |-> {}]
    /\ rw_saw = [t \in Threads |-> FALSE]
    /\ rw_waited = [t \in Threads |-> FALSE]

LockFree == read_condition.owner = NoThread

\* Condition.notifyAll: every waiter leaves wait and will re-take the Lock.
notifyAll(pc) == [t \in Threads |-> IF t \in read_condition.waiters THEN "notified" ELSE pc[t]]

\* The predicate of wait_for in acquire_write.
readers_drained_always == TRUE
readers_drained == readers = 0

\* A thread calls acquire_read: it is now at read_condition.acquire().
call_acquire_read(t) ==
    /\ rw_pc[t] = "idle"
    /\ rw_open
    /\ rw_pc' = [rw_pc EXCEPT ![t] = "acquire_read"]
    /\ rw_pending' = [rw_pending EXCEPT ![t] = {w \in Threads : rw_pc[w] = "waiting"}]
    /\ rw_held' = [rw_held EXCEPT ![t] = {w \in Threads : rw_pc[w] = "writing"}]
    /\ rw_saw' = [rw_saw EXCEPT ![t] = \E w \in Threads : rw_pc[w] = "writing"]
    /\ UNCHANGED <<readers, read_condition, rw_open, rw_waited>>
    /\ UNCHANGED <<exVars, stVars, srvVars, lgVars, lifeVars>>

\* acquire_read without read_condition.acquire(): the count is raised unlocked.
acquire_read_unlocked(t) ==
    /\ rw_pc[t] = "acquire_read"
    /\ readers' = readers + 1
    /\ rw_pc' = [rw_pc EXCEPT ![t] = "reading"]
    /\ UNCHANGED <<read_condition, rw_open, rw_pending, rw_held, rw_saw, rw_waited>>
    /\ UNCHANGED <<exVars, stVars, srvVars, lgVars, lifeVars>>

\* acquire_read: take the Lock, readers += 1, drop the Lock.
acquire_read(t) ==
    /\ rw_pc[t] = "acquire_read"
    /\ LockFree
    /\ readers' = readers + 1
    /\ rw_pc' = [rw_pc EXCEPT ![t] = "reading"]
    /\ UNCHANGED <<read_condition, rw_open, rw_pending, rw_held, rw_saw, rw_waited>>
    /\ UNCHANGED <<exVars, stVars, srvVars, lgVars, lifeVars>>

\* release_read without the notifyAll.
release_read_without_notify(t) ==
    /\ rw_pc[t] = "reading"
    /\ LockFree
    /\ readers' = readers - 1
    /\ rw_pc' = [rw_pc EXCEPT ![t] = "idle"]
    /\ rw_saw' = [rw_saw EXCEPT ![t] = FALSE]
    /\ UNCHANGED <<read_condition, rw_open, rw_pending, rw_held, rw_waited>>
    /\ UNCHANGED <<exVars, stVars, srvVars, lgVars, lifeVars>>

\* release_read: take the Lock, readers -= 1, notifyAll when it reaches 0.
release_read(t) ==
    /\ rw_pc[t] = "reading"
    /\ LockFree
    /\ readers' = readers - 1
    /\ IF readers - 1 = 0
       THEN /\ rw_pc' = [notifyAll(rw_pc) EXCEPT ![t] = "idle"]
            /\ read_condition' = [read_condition EXCEPT !.waiters = {}]
       ELSE /\ rw_pc' = [rw_pc EXCEPT ![t] = "idle"]
            /\ UNCHANGED read_condition
    /\ rw_saw' = [rw_saw EXCEPT ![t] = FALSE]
    /\ UNCHANGED <<rw_open, rw_pending, rw_held, rw_waited>>
    /\ UNCHANGED <<exVars, stVars, srvVars, lgVars, lifeVars>>

\* A thread calls acquire_write: it is now at read_condition.acquire().
call_acquire_write(t) ==
    /\ rw_pc[t] = "idle"
    /\ rw_pc' = [rw_pc EXCEPT ![t] = "acquire_write"]
    /\ UNCHANGED <<readers, read_condition, rw_open, rw_pending, rw_held, rw_saw, rw_waited>>
    /\ UNCHANGED <<exVars, stVars, srvVars, lgVars, lifeVars>>

\* acquire_write, and the return from Condition.wait inside wait_for: take
\* the Lock and test the predicate; keep the Lock when it holds, else wait.
acquire_write(t) ==
    /\ rw_pc[t] \in {"acquire_write", "notified"}
    /\ LockFree
    /\ IF readers_drained
       THEN /\ rw_pc' = [rw_pc EXCEPT ![t] = "writing"]
            /\ read_condition' = [read_condition EXCEPT !.owner = t]
            /\ UNCHANGED rw_waited
       ELSE /\ rw_pc' = [rw_pc EXCEPT ![t] = "waiting"]
            /\ read_condition' = [read_condition EXCEPT !.waiters = @ \cup {t}]
            /\ rw_waited' = [rw_waited EXCEPT ![t] = TRUE]
    /\ UNCHANGED <<readers, rw_open, rw_pending, rw_held, rw_saw>>
    /\ UNCHANGED <<exVars, stVars, srvVars, lgVars, lifeVars>>

\* release_write: notifyAll, then drop the Lock.
release_write(t) ==
    /\ rw_pc[t] = "writing"
    /\ read_condition.owner = t
    /\ rw_pc' = [notifyAll(rw_pc) EXCEPT ![t] = "idle"]
    /\ read_condition' = [owner |-> NoThread, waiters |-> {}]
    /\ rw_pending' = [r \in Threads |-> rw_pending[r] \ {t}]
    /\ rw_held' = [r \in Threads |-> rw_held[r] \ {t}]
    /\ rw_waited' = [rw_waited EXCEPT ![t] = FALSE]
    /\ UNCHANGED <<readers, rw_open, rw_saw>>
    /\ UNCHANGED <<exVars, stVars, srvVars, lgVars, lifeVars>>

\* Environment: from now on no new acquire_read call starts.
rw_close ==
    /\ rw_open
    /\ rw_open' = FALSE
    /\ UNCHANGED <<readers, read_condition, rw_pc, rw_pending, rw_held, rw_saw, rw_waited>>
    /\ UNCHANGED <<exVars, stVars, srvVars, lgVars, lifeVars>>

\* The steps of a thread inside a call, and the release that ends its
\* critical section.
RWProgress(t) ==
    \/ acquire_read(t)
    \/ release_read(t)
    \/ acquire_write(t)
    \/ release_write(t)

RWThread(t) ==
    \/ call_acquire_read(t)
    \/ call_acquire_write(t)
    \/ RWProgress(t)

RWNext ==
    \/ \E t \in Threads : RWThread(t)
    \/ rw_close

-----------------------------------------------------------------------------
(***************************************************************************)
(* ExclusiveLock.                                                          *)
(*                                                                         *)
(* acquire and release run inside "with self.state_lock", so between       *)
(* taking state_lock and dropping it (on leaving the block or inside       *)
(* Condition.wait) a call is not interleaved with another call on the      *)
(* same ExclusiveLock.  A call is modelled by three steps: take            *)
(* state_lock; evaluate the wait_for predicate                             *)
(* locks[requested_state].acquire(blocking=False), waiting when it is      *)
(* false; run the rest of the block and drop state_lock.                   *)
(***************************************************************************)
EXCLUSIVE_STATES == {"add", "resize", "query"}

ExInit ==
    /\ state_lock = NoThread
    /\ condition = {}
    /\ locks = [s \in EXCLUSIVE_STATES |-> FALSE]
    /\ counters = [s \in EXCLUSIVE_STATES |-> 0]
    /\ ex_pc = [t \in ExThreads |-> "idle"]
    /\ ex_req = [t \in ExThreads |-> "add"]
    /\ ex_open = TRUE
    /\ ex_handover = [t \in ExThreads |-> {}]

\* Condition.notify_all on self.condition.
notify_all(pc) ==
    [t \in ExThreads |->
        IF t \in condition
        THEN (IF pc[t] = "acquire_wait" THEN "acquire_notified" ELSE "release_notified")
        ELSE pc[t]]

\* A thread calls acquire(requested_state).
call_acquire(t, s) ==
    /\ ex_pc[t] = "idle"
    /\ ex_open
    /\ ex_pc' = [ex_pc EXCEPT ![t] = "acquire"]
    /\ ex_req' = [ex_req EXCEPT ![t] = s]
    /\ UNCHANGED <<state_lock, condition, locks, counters, ex_open, ex_handover>>
    /\ UNCHANGED <<rwVars, stVars, srvVars, lgVars, lifeVars>>

\* "with self.state_lock" of acquire, and the re-take of state_lock when
\* Condition.wait returns.
acquire_state_lock(t) ==
    /\ ex_pc[t] \in {"acquire", "acquire_notified"}
    /\ state_lock = NoThread
    /\ state_lock' = t
    /\ ex_pc' = [ex_pc EXCEPT ![t] = "acquire_test"]
    /\ UNCHANGED <<condition, locks, counters, ex_req, ex_open, ex_handover>>
    /\ UNCHANGED <<rwVars, stVars, srvVars, lgVars, lifeVars>>

\* wait_for(lambda: self.locks[requested_state].acquire(blocking=False)).
acquire_wait_for(t) ==
    /\ ex_pc[t] = "acquire_test"
    /\ state_lock = t
    /\ IF ~locks[ex_req[t]]
       THEN /\ locks' = [locks EXCEPT ![ex_req[t]] = TRUE]
            /\ ex_pc' = [ex_pc EXCEPT ![t] = "acquire_body"]
            /\ UNCHANGED <<state_lock, condition>>
       ELSE /\ ex_pc' = [ex_pc EXCEPT ![t] = "acquire_wait"]
            /\ condition' = condition \cup {t}
            /\ state_lock' = NoThread
            /\ UNCHANGED locks
    /\ UNCHANGED <<counters, ex_req, ex_open, ex_handover>>
    /\ UNCHANGED <<rwVars, stVars, srvVars, lgVars, lifeVars>>

\* The locks after the rest of acquire: every other state's Lock is locked
\* ("if key != requested_state and not lock.locked(): lock.acquire()") and
\* the requested state's Lock is released.
locks_after_acquire_keeps_own(s) == [k \in EXCLUSIVE_STATES |-> TRUE]
locks_after_acquire_skips_others(s) == [locks EXCEPT ![s] = FALSE]
locks_after_acquire(s) == [k \in EXCLUSIVE_STATES |-> k # s]

\* The rest of acquire without "self.counters[requested_state] += 1".
acquire_uncounted(t) ==
    /\ ex_pc[t] = "acquire_body"
    /\ state_lock = t
    /\ locks' = locks_after_acquire(ex_req[t])
    /\ state_lock' = NoThread
    /\ ex_pc' = [ex_pc EXCEPT ![t] = "held"]
    /\ UNCHANGED <<counters, condition, ex_req, ex_open, ex_handover>>
    /\ UNCHANGED <<rwVars, stVars, srvVars, lgVars, lifeVars>>

\* The rest of acquire: counters += 1, lock the other states, release the
\* requested state's Lock, leave the with block.
acquire(t) ==
    /\ ex_pc[t] = "acquire_body"
    /\ state_lock = t
    /\ counters' = [counters EXCEPT ![ex_req[t]] = @ + 1]
    /\ locks' = locks_after_acquire(ex_req[t])
    /\ state_lock' = NoThread
    /\ ex_pc' = [ex_pc EXCEPT ![t] = "held"]
    /\ UNCHANGED <<condition, ex_req, ex_open, ex_handover>>
    /\ UNCHANGED <<rwVars, stVars, srvVars, lgVars, lifeVars>>

\* A thread that holds its state calls release(requested_state).
call_release(t) ==
    /\ ex_pc[t] = "held"
    /\ ex_pc' = [ex_pc EXCEPT ![t] = "release"]
    /\ ex_handover' = [ex_handover EXCEPT ![t] = {}]
    /\ UNCHANGED <<state_lock, condition, locks, counters, ex_req, ex_open>>
    /\ UNCHANGED <<rwVars, stVars, srvVars, lgVars, lifeVars>>

\* "with self.state_lock" of release, and the re-take of state_lock when
\* Condition.wait returns.
release_state_lock(t) ==
    /\ ex_pc[t] \in {"release", "release_notified"}
    /\ state_lock = NoThread
    /\ state_lock' = t
    /\ ex_pc' = [ex_pc EXCEPT ![t] = "release_test"]
    /\ UNCHANGED <<condition, locks, counters, ex_req, ex_open, ex_handover>>
    /\ UNCHANGED <<rwVars, stVars, srvVars, lgVars, lifeVars>>

\* wait_for(lambda: self.locks[requested_state].acquire(blocking=False)).
release_wait_for(t) ==
    /\ ex_pc[t] = "release_test"
    /\ state_lock = t
    /\ IF ~locks[ex_req[t]]
       THEN /\ locks' = [locks EXCEPT ![ex_req[t]] = TRUE]
            /\ ex_pc' = [ex_pc EXCEPT ![t] = "release_body"]
            /\ UNCHANGED <<state_lock, condition>>
       ELSE /\ ex_pc' = [ex_pc EXCEPT ![t] = "release_wait"]
            /\ condition' = condition \cup {t}
            /\ state_lock' = NoThread
            /\ UNCHANGED locks
    /\ UNCHANGED <<counters, ex_req, ex_open, ex_handover>>
    /\ UNCHANGED <<rwVars, stVars, srvVars, lgVars, lifeVars>>

\* History: the last holder of state s releases; every thread waiting in
\* acquire for another state has seen s handed over.
handed_over(s) ==
    [w \in ExThreads |->
        IF ex_pc[w] = "acquire_wait" /\ ex_req[w] # s
        THEN ex_handover[w] \cup {s}
        ELSE ex_handover[w]]

\* The rest of release without the loop that releases the Locks of the
\* other states.
release_keeps_locks(t) ==
    /\ ex_pc[t] = "release_body"
    /\ state_lock = t
    /\ counters' = [counters EXCEPT ![ex_req[t]] = @ - 1]
    /\ locks' = [locks EXCEPT ![ex_req[t]] = FALSE]
    /\ IF counters[ex_req[t]] - 1 = 0
       THEN /\ ex_pc' = [notify_all(ex_pc) EXCEPT ![t] = "idle"]
            /\ condition' = {}
            /\ ex_handover' = handed_over(ex_req[t])
       ELSE /\ ex_pc' = [ex_pc EXCEPT ![t] = "idle"]
            /\ UNCHANGED <<condition, ex_handover>>
    /\ state_lock' = NoThread
    /\ UNCHANGED <<ex_req, ex_open>>
    /\ UNCHANGED <<rwVars, stVars, srvVars, lgVars, lifeVars>>

\* The rest of release without notify_all.
release_without_notify(t) ==
    /\ ex_pc[t] = "release_body"
    /\ state_lock = t
    /\ counters' = [counters EXCEPT ![ex_req[t]] = @ - 1]
    /\ IF counters[ex_req[t]] - 1 = 0
       THEN /\ locks' = [k \in EXCLUSIVE_STATES |-> FALSE]
            /\ ex_handover' = handed_over(ex_req[t])
       ELSE /\ locks' = [locks EXCEPT ![ex_req[t]] = FALSE]
            /\ UNCHANGED ex_handover
    /\ ex_pc' = [ex_pc EXCEPT ![t] = "idle"]
    /\ state_lock' = NoThread
    /\ UNCHANGED <<condition, ex_req, ex_open>>
    /\ UNCHANGED <<rwVars, stVars, srvVars, lgVars, lifeVars>>

\* The rest of release: counters -= 1; when it reaches 0 release every other
\* state's Lock that is locked and notify_all; release the requested state's
\* Lock; leave the with block.
release(t) ==
    /\ ex_pc[t] = "release_body"
    /\ state_lock = t
    /\ counters' = [counters EXCEPT ![ex_req[t]] = @ - 1]
    /\ IF counters[ex_req[t]] - 1 = 0
       THEN /\ locks' = [k \in EXCLUSIVE_STATES |-> FALSE]
            /\ ex_pc' = [notify_all(ex_pc) EXCEPT ![t] = "idle"]
            /\ condition' = {}
            /\ ex_handover' = handed_over(ex_req[t])
       ELSE /\ locks' = [locks EXCEPT ![ex_req[t]] = FALSE]
            /\ ex_pc' = [ex_pc EXCEPT ![t] = "idle"]
            /\ UNCHANGED <<condition, ex_handover>>
    /\ state_lock' = NoThread
    /\ UNCHANGED <<ex_req, ex_open>>
    /\ UNCHANGED <<rwVars, stVars, srvVars, lgVars, lifeVars>>

\* Environment: from now on no new acquire call starts.
ex_close ==
    /\ ex_open
    /\ ex_open' = FALSE
    /\ UNCHANGED <<state_lock, condition, locks, counters, ex_pc, ex_req, ex_handover>>
    /\ UNCHANGED <<rwVars, stVars, srvVars, lgVars, lifeVars>>

\* The steps of a thread inside a call, and the release that ends its
\* critical section.
ExProgress(t) ==
    \/ acquire_state_lock(t)
    \/ acquire_wait_for(t)
    \/ acquire(t)
    \/ call_release(t)
    \/ release_state_lock(t)
    \/ release_wait_for(t)
    \/ release(t)

ExThread(t) ==
    \/ \E s \in EXCLUSIVE_STATES : call_acquire(t, s)
    \/ ExProgress(t)

ExNext ==
    \/ \E t \in ExThreads : ExThread(t)
    \/ ex_close

-----------------------------------------------------------------------------
(***************************************************************************)
(* KNNStore.add_items and KNNStore.resize_index of the thread-lock         *)
(* revision (src/luxdb/knn_store.py): acquire(state), the hnswlib call,    *)
(* release(state), one after the other with no try/finally.  query_index   *)
(* of that revision releases in a finally clause.                          *)
(***************************************************************************)
\* The threads that have acquired a state and not yet given it back.
Holders ==
    {t \in ExThreads : ex_pc[t] \in {"held", "release", "release_notified", "release_test",
                                     "release_wait", "release_body"}}

\* The acquisitions that no thread is going to give back.
Leaked == counters["add"] + counters["resize"] + counters["query"] - Cardinality(Holders)

\* index.add_items or index.resize_index raises (more rows than the index
\* has room for): the exception leaves add_items / resize_index past the
\* release call.
hnswlib_raises(t) ==
    /\ ex_pc[t] = "held"
    /\ ex_req[t] \in {"add", "resize"}
    /\ Leaked < MaxLeaks
    /\ ex_pc' = [ex_pc EXCEPT ![t] = "idle"]
    /\ UNCHANGED <<state_lock, condition, locks, counters, ex_req, ex_open, ex_handover>>
    /\ UNCHANGED <<rwVars, stVars, srvVars, lgVars, lifeVars>>

LegacyThread(t) ==
    \/ ExThread(t)
    \/ hnswlib_raises(t)

LegacyNext ==
    \/ \E t \in ExThreads : LegacyThread(t)
    \/ ex_close

(***************************************************************************)
(* KNNStore of the thread-lock revision (src/luxdb/knn_store.py): the      *)
(* registry self.indexes, the map self.locks of per-index ExclusiveLocks,  *)
(* the pickle file, and save_lock, the ReadWriteLock above.  Every         *)
(* operation that changes the registry or an index runs inside "with       *)
(* self.save_lock.read()", save_database inside "with                      *)
(* self.save_lock.write()", load_database takes no lock.  Threads run the  *)
(* operations, so the two assignments of create_index and the two del      *)
(* statements of delete_index are separate steps.  What the indexes hold   *)
(* is left out.                                                            *)
(***************************************************************************)
NoLgCmd == [op |-> "", name |-> ""]
LgCmd(o, nm) == [op |-> o, name |-> nm]

\* The operations that look the name up in self.indexes only, and those that
\* look it up in self.locks first.
IndexOps == {"init_index", "set_ef", "delete_item"}
LockedOps == {"add_items", "query_index", "resize_index"}

LgCommands ==
    {LgCmd(o, nm) : o \in {"create_index", "delete_index"} \cup IndexOps \cup LockedOps, nm \in Names}
        \cup {LgCmd("save_database", ""), LgCmd("load_database", "")}

LgInit ==
    /\ lg_indexes = {}
    /\ lg_locks = {}
    /\ lg_file = [exists |-> FALSE, names |-> {}]
    /\ lg_pc = [t \in Threads |-> "idle"]
    /\ lg_cmd = [t \in Threads |-> NoLgCmd]
    /\ lg_res = [t \in Threads |-> ""]

\* How an operation takes save_lock.
save_lock_mode_read(o) == IF o = "load_database" THEN "none" ELSE "read"
save_lock_mode(o) ==
    IF o = "save_database" THEN "write"
    ELSE IF o = "load_database" THEN "none"
    ELSE "read"

\* The position of a thread that is inside the with block of its operation.
InsideSaveLock(t) ==
    rw_pc[t] = (IF save_lock_mode(lg_cmd[t].op) = "write" THEN "writing" ELSE "reading")

\* A thread calls an operation of the store.
lg_call(t, k) ==
    /\ lg_pc[t] = "idle"
    /\ rw_pc[t] = "idle"
    /\ lg_pc' = [lg_pc EXCEPT ![t] = "enter"]
    /\ lg_cmd' = [lg_cmd EXCEPT ![t] = k]
    /\ UNCHANGED <<lg_indexes, lg_locks, lg_file, lg_res>>
    /\ UNCHANGED <<rwVars, exVars, stVars, srvVars, lifeVars>>

\* "with self.save_lock.read():" / "with self.save_lock.write():", the call
\* of acquire_read or acquire_write.
lg_with(t) ==
    /\ lg_pc[t] = "enter"
    /\ CASE save_lock_mode(lg_cmd[t].op) = "read" -> call_acquire_read(t)
         [] save_lock_mode(lg_cmd[t].op) = "write" -> call_acquire_write(t)
         [] OTHER -> FALSE

\* get_index(name) / get_lock(name): IndexDoesNotExistException for a name
\* that is not a key of the map.
lookup(map, nm) == IF nm \in map THEN "ok" ELSE "IndexDoesNotExist"

\* The block of the operation up to its end, or up to the point between the
\* two statements of create_index and delete_index.
lg_body(t) ==
    /\ lg_pc[t] = "enter"
    /\ InsideSaveLock(t)
    /\ LET k == lg_cmd[t]
       IN  CASE k.op = "create_index" ->
                  IF k.name \in lg_indexes
                  THEN /\ lg_res' = [lg_res EXCEPT ![t] = "IndexAlreadyExists"]
                       /\ lg_pc' = [lg_pc EXCEPT ![t] = "exit"]
                       /\ UNCHANGED <<lg_indexes, lg_locks, lg_file>>
                  ELSE /\ lg_indexes' = lg_indexes \cup {k.name}
                       /\ lg_pc' = [lg_pc EXCEPT ![t] = "half"]
                       /\ UNCHANGED <<lg_locks, lg_file, lg_res>>
             [] k.op = "delete_index" ->
                  IF k.name \notin lg_indexes
                  THEN /\ lg_res' = [lg_res EXCEPT ![t] = "KeyError"]
                       /\ lg_pc' = [lg_pc EXCEPT ![t] = "exit"]
                       /\ UNCHANGED <<lg_indexes, lg_locks, lg_file>>
                  ELSE /\ lg_indexes' = lg_indexes \ {k.name}
                       /\ lg_pc' = [lg_pc EXCEPT ![t] = "half"]
                       /\ UNCHANGED <<lg_locks, lg_file, lg_res>>
             [] k.op \in IndexOps ->
                  /\ lg_res' = [lg_res EXCEPT ![t] = lookup(lg_indexes, k.name)]
                  /\ lg_pc' = [lg_pc EXCEPT ![t] = "exit"]
                  /\ UNCHANGED <<lg_indexes, lg_locks, lg_file>>
             [] k.op \in LockedOps ->
                  /\ lg_res' = [lg_res EXCEPT ![t] =
                                   IF lookup(lg_locks, k.name) = "ok"
                                   THEN lookup(lg_indexes, k.name)
                                   ELSE lookup(lg_locks, k.name)]
                  /\ lg_pc' = [lg_pc EXCEPT ![t] = "exit"]
                  /\ UNCHANGED <<lg_indexes, lg_locks, lg_file>>
             [] k.op = "save_database" ->
                  /\ lg_file' = [exists |-> TRUE, names |-> lg_indexes]
                  /\ lg_res' = [lg_res EXCEPT ![t] = "ok"]
                  /\ lg_pc' = [lg_pc EXCEPT ![t] = "exit"]
                  /\ UNCHANGED <<lg_indexes, lg_locks>>
    /\ UNCHANGED lg_cmd
    /\ UNCHANGED <<rwVars, exVars, stVars, srvVars, lifeVars>>

\* The second statement of create_index (self.locks[name] = ...) and of
\* delete_index (del self.locks[name]).
lg_second(t) ==
    /\ lg_pc[t] = "half"
    /\ LET k == lg_cmd[t]
       IN  IF k.op = "create_index"
           THEN /\ lg_locks' = lg_locks \cup {k.name}
                /\ lg_res' = [lg_res EXCEPT ![t] = "ok"]
           ELSE IF k.name \in lg_locks
           THEN /\ lg_locks' = lg_locks \ {k.name}
                /\ lg_res' = [lg_res EXCEPT ![t] = "ok"]
           ELSE /\ lg_res' = [lg_res EXCEPT ![t] = "KeyError"]
                /\ UNCHANGED lg_locks
    /\ lg_pc' = [lg_pc EXCEPT ![t] = "exit"]
    /\ UNCHANGED <<lg_indexes, lg_file, lg_cmd>>
    /\ UNCHANGED <<rwVars, exVars, stVars, srvVars, lifeVars>>

\* load_database: self.indexes = pickle.load(f) when the file exists;
\* self.locks is left as it is.
load_database(t) ==
    /\ lg_pc[t] = "enter"
    /\ lg_cmd[t].op = "load_database"
    /\ lg_indexes' = IF lg_file.exists THEN lg_file.names ELSE lg_indexes
    /\ lg_res' = [lg_res EXCEPT ![t] = "ok"]
    /\ lg_pc' = [lg_pc EXCEPT ![t] = "exit"]
    /\ UNCHANGED <<lg_locks, lg_file, lg_cmd>>
    /\ UNCHANGED <<rwVars, exVars, stVars, srvVars, lifeVars>>

\* The end of the with block: release_read or release_write.
lg_exit(t) ==
    /\ lg_pc[t] = "exit"
    /\ \/ release_read(t)
       \/ release_write(t)

\* The operation returns or raises to its caller.
lg_return(t) ==
    /\ lg_pc[t] = "exit"
    /\ rw_pc[t] = "idle"
    /\ lg_pc' = [lg_pc EXCEPT ![t] = "idle"]
    /\ lg_cmd' = [lg_cmd EXCEPT ![t] = NoLgCmd]
    /\ lg_res' = [lg_res EXCEPT ![t] = ""]
    /\ UNCHANGED <<lg_indexes, lg_locks, lg_file>>
    /\ UNCHANGED <<rwVars, exVars, stVars, srvVars, lifeVars>>

\* The callers: thread 1 creates and deletes indexes, thread 2 works on
\* the index named "a", every other thread saves and loads the database.
LgCommandsOf(t) ==
    {k \in LgCommands :
        CASE t = 1 -> k.op \in {"create_index", "delete_index"}
          [] t = 2 -> k.op \in IndexOps \cup LockedOps /\ k.name = "a"
          [] OTHER -> k.op \in {"save_database", "load_database"}}

LgThread(t) ==
    \/ \E k \in LgCommandsOf(t) : lg_call(t, k)
    \/ lg_with(t)
    \/ acquire_read(t)
    \/ acquire_write(t)
    \/ lg_body(t)
    \/ lg_second(t)
    \/ load_database(t)
    \/ lg_exit(t)
    \/ lg_return(t)

LgNext == \E t \in Threads : LgThread(t)

-----------------------------------------------------------------------------
(***************************************************************************)
(* KNNStore (asyncio revision) and the Index objects it keeps.             *)
(*                                                                         *)
(* The store runs on one event loop: the code between two awaits is one    *)
(* step.  The awaits of an operation are: the acquisition of the index's   *)
(* lock, and loop.run_in_executor for add_items, query_index and           *)
(* resize_index, whose hnswlib call runs on a worker thread.               *)
(*                                                                         *)
(* The Index class of this revision (lock.acquire_read / acquire_write /   *)
(* release_read / release_write, read_from_path, write_to_path) is not in  *)
(* the sources; it is modelled from the specification: a reader/writer     *)
(* lock with writer priority per Index object, a snapshot file per Index   *)
(* object that write_to_path overwrites with the in-memory payload and     *)
(* read_from_path loads when the in-memory payload is absent.  hnswlib is  *)
(* modelled by the operations the specification documents.                 *)
(***************************************************************************)
ALLOWED_SPACES_any == {"l2", "ip", "cosine", "l1"}
ALLOWED_SPACES == {"l2", "ip", "cosine"}
DefaultEfConstruction == 200
DefaultM == 16
DefaultEf == 10
Dim == 12
NewEf == 210

FreshPayload ==
    [M |-> 0, ef_construction |-> 0, ef |-> DefaultEf, max_elements |-> 0,
     labels |-> {}, deleted |-> {}]

NoObj == [space |-> "", dim |-> 0, loaded |-> FALSE, mem |-> FreshPayload,
          readers |-> 0, writer |-> FALSE]

NoFile == [exists |-> FALSE, data |-> FreshPayload]

NoCommand == [op |-> "", name |-> "", space |-> "", dim |-> 0, n |-> 0, ids |-> {}]

NoResult == [state |-> "CREATED", error |-> "", value |-> 0, ids |-> {}, space |-> "", dim |-> 0]

\* Command.execute: state and result of the command while its operation is
\* suspended, when the operation has returned, and when it has raised.
Executing == [NoResult EXCEPT !.state = "EXECUTED"]
Succeeded(v, s) == [state |-> "SUCCEEDED", error |-> "", value |-> v, ids |-> s, space |-> "", dim |-> 0]
Failed_unhandled(e) == [state |-> "EXECUTED", error |-> e, value |-> 0, ids |-> {}, space |-> "", dim |-> 0]
Failed(e) == [state |-> "FAILED", error |-> e, value |-> 0, ids |-> {}, space |-> "", dim |-> 0]

Op(o, nm) == [NoCommand EXCEPT !.op = o, !.name = nm]

\* The commands a caller may issue: the arguments are drawn from small sets.
Commands ==
    UNION {
        {Op("index_exists", nm), Op("delete_index", nm), Op("count", nm),
         Op("max_elements", nm), Op("get_ids", nm), Op("get_ef", nm),
         Op("get_ef_construction", nm), Op("query_index", nm), Op("info", nm),
         [Op("set_ef", nm) EXCEPT !.n = NewEf],
         [Op("get_items", nm) EXCEPT !.ids = Labels]}
        \cup {[Op("create_index", nm) EXCEPT !.space = sp, !.dim = Dim] : sp \in {"l2", "l1"}}
        \cup {[Op("init_index", nm) EXCEPT !.n = k] : k \in 1..MaxCap}
        \cup {[Op("resize_index", nm) EXCEPT !.n = k] : k \in 1..MaxCap}
        \cup {[Op("delete_item", nm) EXCEPT !.n = l] : l \in Labels}
        \cup {[Op("add_items", nm) EXCEPT !.ids = s] : s \in (SUBSET Labels) \ {{}}}
        : nm \in Names}

SyncOps == {"index_exists", "create_index", "delete_index", "import_index"}
ExecutorOps == {"add_items", "query_index", "resize_index"}

\* The classes of section 4.4 of the specification.
WriteClass == {"init_index", "add_items", "set_ef", "resize_index", "delete_item"}
OpClass(o) == IF o \in WriteClass THEN "write" ELSE "read"

StInit ==
    /\ indexes = [nm \in Names |-> NoIndex]
    /\ obj = [u \in UIDs |-> NoObj]
    /\ disk = [u \in UIDs |-> NoFile]
    /\ uuid_next = 1
    /\ st_pc = [c \in Conns |-> "idle"]
    /\ cmd = [c \in Conns |-> NoCommand]
    /\ target = [c \in Conns |-> NoIndex]
    /\ wbuf = [c \in Conns |-> FreshPayload]
    /\ result = [c \in Conns |-> NoResult]
    /\ n_create = 0
    /\ st_overlap = {}
    /\ st_added = [nm \in Names |-> {}]
    /\ st_failed = {}
    /\ st_journal = [c \in Conns |-> <<>>]

-----------------------------------------------------------------------------
\* hnswlib.Index, as far as the store uses it.
hnsw_init_ok(p) == p.M = 0
hnsw_init(p, max_elements) ==
    [p EXCEPT !.M = DefaultM, !.ef_construction = DefaultEfConstruction,
              !.max_elements = max_elements]
hnsw_add_ok(p, ids) == Cardinality(p.labels \cup ids) <= p.max_elements
hnsw_add(p, ids) == [p EXCEPT !.labels = @ \cup ids]
hnsw_resize_ok_always(p, n) == TRUE
hnsw_resize_ok(p, n) == Cardinality(p.labels) <= n
hnsw_resize(p, n) == [p EXCEPT !.max_elements = n]
hnsw_mark_deleted_ok(p, l) == l \in p.labels \ p.deleted
hnsw_mark_deleted(p, l) == [p EXCEPT !.deleted = @ \cup {l}]
hnsw_knn_query(p) == p.labels \ p.deleted
hnsw_get_items_ok(p, ids) == ids \subseteq p.labels

\* Index.read_from_path: load the snapshot when the in-memory payload is absent.
read_from_path(o, f) ==
    IF o.loaded THEN o
    ELSE [o EXCEPT !.loaded = TRUE, !.mem = IF f.exists THEN f.data ELSE FreshPayload]

\* Index.write_to_path: overwrite the snapshot with the in-memory payload.
write_to_path(o, f) == IF o.loaded THEN [exists |-> TRUE, data |-> o.mem] ELSE f

\* index.lock of the reader/writer lock of the specification.
can_acquire_write(k) == ~obj[k].writer /\ obj[k].readers = 0
lock_acquire(o, ctx) ==
    IF ctx = "read" THEN [o EXCEPT !.readers = @ + 1] ELSE [o EXCEPT !.writer = TRUE]
lock_release(o, ctx) ==
    IF ctx = "read" THEN [o EXCEPT !.readers = @ - 1] ELSE [o EXCEPT !.writer = FALSE]

-----------------------------------------------------------------------------
\* Which context manager each operation enters.
index_context_executor_reads(o) ==
    CASE o = "init_index" -> "init"
      [] o \in {"set_ef", "delete_item"} -> "write"
      [] OTHER -> "read"
index_context(o) ==
    CASE o = "init_index" -> "init"
      [] o \in {"add_items", "set_ef", "delete_item", "resize_index"} -> "write"
      [] OTHER -> "read"

\* The lock an operation on Index object u takes: index.lock, the lock of
\* that object.
lock_of_store(u) == CHOOSE v \in UIDs : \A w \in UIDs : v <= w
lock_of(u) == u

\* Writer priority: a reader queues behind the writers that wait for the lock.
WaitingWriters(l) ==
    {c \in Conns : /\ st_pc[c] = "wait"
                   /\ index_context(cmd[c].op) # "read"
                   /\ lock_of(target[c]) = l}
can_acquire_read(l, c) == ~obj[l].writer /\ WaitingWriters(l) \ {c} = {}
can_acquire(l, ctx, c) ==
    IF ctx = "read" THEN can_acquire_read(l, c) ELSE can_acquire_write(l)

\* The tasks whose operation is in progress on Index object u: between the
\* acquisition of the lock and its release.
InProgress(u) == {c \in Conns : target[c] = u /\ st_pc[c] \in {"running", "finished"}}

\* History: task c, executing operation o, touches Index object u now.
Touch(c, o, u) ==
    st_overlap \cup {<<OpClass(o), OpClass(cmd[c2].op)>> : c2 \in InProgress(u) \ {c}}

\* Index(hnswlib.Index(space=space, dim=dim)): a new wrapper, not initialized.
Index_default(space, dim) == [NoObj EXCEPT !.space = "l2", !.dim = Dim, !.loaded = TRUE]
Index(space, dim) == [NoObj EXCEPT !.space = space, !.dim = dim, !.loaded = TRUE]

\* index_exists, create_index, delete_index, import_index: no lock, no await.
\* The wrapper that import_index gets is k.n: NoIndex stands for a wrapper
\* the caller has built for this call, any other value for an Index object
\* the caller has got from get_index.
registry(c, k) ==
    /\ LET u == indexes[k.name]
       IN  CASE k.op = "index_exists" ->
                  /\ result' = [result EXCEPT ![c] = Succeeded(IF u # NoIndex THEN 1 ELSE 0, {})]
                  /\ UNCHANGED <<indexes, obj, disk, uuid_next>>
             [] k.op = "create_index" ->
                  IF k.space \notin ALLOWED_SPACES
                  THEN /\ result' = [result EXCEPT ![c] = Failed("UnknownSpace")]
                       /\ UNCHANGED <<indexes, obj, disk, uuid_next>>
                  ELSE IF u # NoIndex
                  THEN /\ result' = [result EXCEPT ![c] = Failed("IndexAlreadyExists")]
                       /\ UNCHANGED <<indexes, obj, disk, uuid_next>>
                  ELSE /\ indexes' = [indexes EXCEPT ![k.name] = uuid_next]
                       /\ obj' = [obj EXCEPT ![uuid_next] = Index(k.space, k.dim)]
                       /\ uuid_next' = uuid_next + 1
                       /\ result' = [result EXCEPT ![c] = Succeeded(1, {})]
                       /\ UNCHANGED disk
             [] k.op = "delete_index" ->
                  IF u = NoIndex
                  THEN /\ result' = [result EXCEPT ![c] = Failed("KeyError")]
                       /\ UNCHANGED <<indexes, obj, disk, uuid_next>>
                  ELSE /\ indexes' = [indexes EXCEPT ![k.name] = NoIndex]
                       /\ result' = [result EXCEPT ![c] = Succeeded(0, {})]
                       /\ UNCHANGED <<obj, disk, uuid_next>>
             [] k.op = "import_index" ->
                  IF u # NoIndex
                  THEN /\ result' = [result EXCEPT ![c] = Failed("IndexAlreadyExists")]
                       /\ UNCHANGED <<indexes, obj, disk, uuid_next>>
                  ELSE LET w == IF k.n = NoIndex THEN uuid_next ELSE k.n
                           o == IF k.n = NoIndex THEN Index(k.space, k.dim) ELSE obj[w]
                       IN  /\ disk' = [disk EXCEPT ![w] = write_to_path(o, @)]
                           /\ indexes' = [indexes EXCEPT ![k.name] = w]
                           /\ obj' = [obj EXCEPT ![w] = o]
                           /\ uuid_next' = IF k.n = NoIndex THEN uuid_next + 1 ELSE uuid_next
                           /\ result' = [result EXCEPT ![c] = Succeeded(0, {})]
    /\ st_pc' = [st_pc EXCEPT ![c] = "returned"]
    /\ UNCHANGED <<target, wbuf, st_overlap, st_added, st_failed, st_journal>>

\* KNNStore.init_index inside its context manager: index.init_index, whose
\* exception leaves the block before the commit.
init_index_unchecked(p, n) == <<hnsw_init(p, n), Succeeded(0, {})>>
init_index(p, n) ==
    IF hnsw_init_ok(p) THEN <<hnsw_init(p, n), Succeeded(0, {})>>
    ELSE <<p, Failed("RuntimeError")>>

\* KNNStore.count: index.get_current_count().
count_live(p) == Cardinality(p.labels \ p.deleted)
count(p) == Cardinality(p.labels)

\* KNNStore.get_ids: [] for an index without elements, index.get_ids()
\* otherwise.
get_ids_second(p) == IF Cardinality(p.labels) <= 1 THEN {} ELSE p.labels \ p.deleted
get_ids(p) == IF Cardinality(p.labels) = 0 THEN {} ELSE p.labels \ p.deleted

\* The body of an operation that does not go to the executor, on payload p:
\* <<payload afterwards, result>>.
body(k, p) ==
    CASE k.op = "init_index" -> init_index(p, k.n)
      [] k.op = "set_ef" -> <<[p EXCEPT !.ef = k.n], Succeeded(0, {})>>
      [] k.op = "delete_item" ->
            IF hnsw_mark_deleted_ok(p, k.n) THEN <<hnsw_mark_deleted(p, k.n), Succeeded(0, {})>>
            ELSE <<p, Failed("RuntimeError")>>
      [] k.op = "count" -> <<p, Succeeded(count(p), {})>>
      [] k.op = "max_elements" -> <<p, Succeeded(p.max_elements, {})>>
      [] k.op = "get_ef" -> <<p, Succeeded(p.ef, {})>>
      [] k.op = "get_ef_construction" -> <<p, Succeeded(p.ef_construction, {})>>
      [] k.op = "get_ids" -> <<p, Succeeded(0, get_ids(p))>>
      [] k.op = "info" -> <<p, Succeeded(p.M, p.labels)>>
      [] k.op = "get_items" ->
            IF Cardinality(p.labels) = 0 THEN <<p, Succeeded(0, {})>>
            ELSE IF hnsw_get_items_ok(p, k.ids) THEN <<p, Succeeded(0, k.ids)>>
            ELSE <<p, Failed("RuntimeError")>>
      [] OTHER -> <<p, NoResult>>

\* KNNStore.info: the static parameters of the wrapper go into the reply.
info(o, r) == [r EXCEPT !.space = o.space, !.dim = o.dim]

\* History: the rest of a write operation once the hnswlib call is over.
\* self.transaction.commit() is the last statement inside the "async with"
\* block and is skipped when the call raised; index.write_to_path is in the
\* finally clause of the context manager, which runs when the block is left.
context_exit(j, ok) == (IF ok THEN j \o <<"commit">> ELSE j) \o <<"write_to_path">>

\* The head of the context manager once the lock is acquired:
\* _index_for_write and _index_for_read call index.read_from_path(self.path),
\* _index_for_init does not.
context_load_never(o, f, ctx) == o
context_load(o, f, ctx) == IF ctx = "init" THEN o ELSE read_from_path(o, f)

\* The task has the lock of Index object u and runs up to its next await:
\* the head of the context manager, and then either the whole body with the
\* exit of the context manager, or the submission of the hnswlib call to the
\* executor.
enter(c, k, u) ==
    LET l == lock_of(u)
        ctx == index_context(k.op)
        obj1 == [obj EXCEPT ![l] = lock_acquire(@, ctx)]
        obj2 == [obj1 EXCEPT ![u] = context_load(@, disk[u], ctx)]
        p == obj2[u].mem
        b == body(k, p)
        ok == b[2].state = "SUCCEEDED"
        obj3 == [obj2 EXCEPT ![u].mem = b[1],
                             ![u].loaded = @ \/ (k.op = "init_index" /\ ok)]
        res == IF k.op = "info" THEN info(obj2[u], b[2]) ELSE b[2]
    IN  /\ IF ctx # "init" /\ p.M = 0
           THEN \* raised before the try: the finally clause does not run
                /\ obj' = obj2
                /\ result' = [result EXCEPT ![c] = Failed("IndexNotInitialized")]
                /\ st_pc' = [st_pc EXCEPT ![c] = "returned"]
                /\ UNCHANGED <<disk, wbuf, st_journal>>
           ELSE IF k.op \in ExecutorOps
           THEN /\ obj' = obj2
                /\ wbuf' = [wbuf EXCEPT ![c] = IF k.op = "resize_index" THEN p ELSE FreshPayload]
                /\ result' = [result EXCEPT ![c] = Executing]
                /\ st_pc' = [st_pc EXCEPT ![c] = "running"]
                /\ UNCHANGED <<disk, st_journal>>
           ELSE /\ obj' = [obj3 EXCEPT ![l] = lock_release(@, ctx)]
                /\ disk' = IF ctx = "read" THEN disk
                           ELSE [disk EXCEPT ![u] = write_to_path(obj3[u], @)]
                /\ result' = [result EXCEPT ![c] = res]
                /\ st_journal' = [st_journal EXCEPT ![c] =
                                     IF ctx = "read" THEN @
                                     ELSE context_exit(IF ok THEN @ \o <<"mutate">> ELSE @, ok)]
                /\ st_pc' = [st_pc EXCEPT ![c] = "returned"]
                /\ UNCHANGED wbuf
        /\ target' = [target EXCEPT ![c] = u]
        /\ st_overlap' = Touch(c, k.op, u)
        /\ UNCHANGED <<indexes, uuid_next, st_added, st_failed>>

\* An operation on one index, from its call to its first suspension:
\* get_index, and the lock: the task goes on when the lock is free and
\* suspends when it is not.
index_op(c, k) ==
    LET u == indexes[k.name]
    IN  IF u = NoIndex
        THEN /\ result' = [result EXCEPT ![c] = Failed("IndexDoesNotExist")]
             /\ st_pc' = [st_pc EXCEPT ![c] = "returned"]
             /\ UNCHANGED <<indexes, obj, disk, uuid_next, target, wbuf,
                            st_overlap, st_added, st_failed, st_journal>>
        ELSE IF can_acquire(lock_of(u), index_context(k.op), c)
        THEN enter(c, k, u)
        ELSE /\ target' = [target EXCEPT ![c] = u]
             /\ result' = [result EXCEPT ![c] = Executing]
             /\ st_pc' = [st_pc EXCEPT ![c] = "wait"]
             /\ UNCHANGED <<indexes, obj, disk, uuid_next, wbuf,
                            st_overlap, st_added, st_failed, st_journal>>

\* ConnectCommand.execute_command: the payload comes back, the store is not
\* touched.
echo(c, k) ==
    /\ result' = [result EXCEPT ![c] = Succeeded(k.n, {})]
    /\ st_pc' = [st_pc EXCEPT ![c] = "returned"]
    /\ UNCHANGED <<indexes, obj, disk, uuid_next, target, wbuf, st_overlap, st_added, st_failed, st_journal>>

\* Command.execute: the store operation of the command.
execute(c, k) ==
    /\ cmd' = [cmd EXCEPT ![c] = k]
    /\ IF k.op = "connect" THEN echo(c, k)
       ELSE IF k.op \in SyncOps THEN registry(c, k)
       ELSE index_op(c, k)

\* What the environment issues: MaxIndexes create_index commands in all, and
\* no read of an index that is not initialized once MaxLeaks readers hold
\* its lock (each such read leaves the lock with one reader more).
Issuable(k) ==
    /\ k.op = "create_index" => n_create < MaxIndexes
    /\ k.op = "import_index" => IF k.n = NoIndex THEN n_create < MaxIndexes ELSE k.n < uuid_next
    /\ (k.op \notin SyncOps /\ index_context(k.op) = "read" /\ indexes[k.name] # NoIndex)
          => \/ obj[indexes[k.name]].mem.M # 0
             \/ obj[lock_of(indexes[k.name])].readers < MaxLeaks

\* A task calls an operation of the store.
store_call(c, k) ==
    /\ st_pc[c] = "idle"
    /\ Issuable(k)
    /\ execute(c, k)
    /\ n_create' = IF k.op = "create_index" \/ (k.op = "import_index" /\ k.n = NoIndex)
                   THEN n_create + 1 ELSE n_create
    /\ UNCHANGED <<rwVars, exVars, srvVars, lgVars, lifeVars>>

\* The task that waited for the lock gets it.
store_acquire(c) ==
    /\ st_pc[c] = "wait"
    /\ can_acquire(lock_of(target[c]), index_context(cmd[c].op), c)
    /\ enter(c, cmd[c], target[c])
    /\ UNCHANGED <<cmd, n_create>>
    /\ UNCHANGED <<rwVars, exVars, srvVars, lgVars, lifeVars>>

\* The worker thread of run_in_executor makes the hnswlib call.  resize_index
\* reallocates: it copies the payload it found when it started.  add_items
\* that runs out of capacity has inserted some of its rows when it raises.
worker_end(c) ==
    /\ st_pc[c] = "running"
    /\ LET k == cmd[c]
           u == target[c]
           p == obj[u].mem
       IN  /\ CASE k.op = "add_items" ->
                     IF hnsw_add_ok(p, k.ids)
                     THEN /\ obj' = [obj EXCEPT ![u].mem = hnsw_add(p, k.ids)]
                          /\ result' = [result EXCEPT ![c] = Succeeded(0, {})]
                          /\ st_journal' = [st_journal EXCEPT ![c] = @ \o <<"mutate">>]
                     ELSE \E s \in (SUBSET k.ids) \ {k.ids} :
                          /\ hnsw_add_ok(p, s)
                          /\ obj' = [obj EXCEPT ![u].mem = hnsw_add(p, s)]
                          /\ result' = [result EXCEPT ![c] = Failed("RuntimeError")]
                          /\ UNCHANGED st_journal
                [] k.op = "resize_index" ->
                     IF hnsw_resize_ok(wbuf[c], k.n)
                     THEN /\ obj' = [obj EXCEPT ![u].mem = hnsw_resize(wbuf[c], k.n)]
                          /\ result' = [result EXCEPT ![c] = Succeeded(0, {})]
                          /\ st_journal' = [st_journal EXCEPT ![c] = @ \o <<"mutate">>]
                     ELSE /\ result' = [result EXCEPT ![c] = Failed("RuntimeError")]
                          /\ UNCHANGED <<obj, st_journal>>
                [] k.op = "query_index" ->
                     /\ IF hnsw_knn_query(p) = {}
                        THEN result' = [result EXCEPT ![c] = Failed("RuntimeError")]
                        ELSE \E lb \in hnsw_knn_query(p) :
                                result' = [result EXCEPT ![c] = Succeeded(0, {lb})]
                     /\ UNCHANGED <<obj, st_journal>>
           /\ st_overlap' = Touch(c, k.op, u)
    /\ st_pc' = [st_pc EXCEPT ![c] = "finished"]
    /\ UNCHANGED <<indexes, disk, uuid_next, cmd, target, wbuf, n_create, st_added, st_failed>>
    /\ UNCHANGED <<rwVars, exVars, srvVars, lgVars, lifeVars>>

\* The task resumes after run_in_executor: commit, and the exit of the
\* context manager (write_to_path and release_write, or release_read).
store_finish(c) ==
    /\ st_pc[c] = "finished"
    /\ LET k == cmd[c]
           u == target[c]
           l == lock_of(u)
           ctx == index_context(k.op)
       IN  /\ disk' = IF ctx = "read" THEN disk ELSE [disk EXCEPT ![u] = write_to_path(obj[u], @)]
           /\ obj' = [obj EXCEPT ![l] = lock_release(@, ctx)]
           /\ st_journal' = [st_journal EXCEPT ![c] =
                                IF ctx = "read" THEN @
                                ELSE context_exit(@, result[c].state = "SUCCEEDED")]
           /\ st_overlap' = Touch(c, k.op, u)
    /\ st_pc' = [st_pc EXCEPT ![c] = "returned"]
    /\ wbuf' = [wbuf EXCEPT ![c] = FreshPayload]
    /\ UNCHANGED <<indexes, uuid_next, cmd, target, result, n_create, st_added, st_failed>>
    /\ UNCHANGED <<rwVars, exVars, srvVars, lgVars, lifeVars>>

\* The task is done with its command.
done(c) ==
    /\ st_pc' = [st_pc EXCEPT ![c] = "idle"]
    /\ cmd' = [cmd EXCEPT ![c] = NoCommand]
    /\ target' = [target EXCEPT ![c] = NoIndex]
    /\ result' = [result EXCEPT ![c] = NoResult]
    /\ st_journal' = [st_journal EXCEPT ![c] = <<>>]
    /\ UNCHANGED <<indexes, obj, disk, uuid_next, wbuf, n_create, st_overlap>>

\* The operation returns (or raises) to its caller.
store_return(c) ==
    /\ st_pc[c] = "returned"
    /\ done(c)
    /\ UNCHANGED <<st_added, st_failed>>
    /\ UNCHANGED <<rwVars, exVars, srvVars, lgVars, lifeVars>>

\* The commands the tasks of the concurrency scenarios issue.
ConcurrentOps == {"index_exists", "create_index", "init_index", "add_items", "resize_index",
                  "query_index", "count"}
ConcurrentCommands == {k \in Commands : k.op \in ConcurrentOps /\ k.space \in {"", "l2"}}

StoreTask(c) ==
    \/ \E k \in ConcurrentCommands : store_call(c, k)
    \/ store_acquire(c)
    \/ worker_end(c)
    \/ store_finish(c)
    \/ store_return(c)

StoreNext == \E c \in Conns : StoreTask(c)

-----------------------------------------------------------------------------
\* Callers of the whole interface of the store, on one name.
ApiCommands ==
    {k \in Commands :
        /\ k.name = "a"
        /\ k.op \in {"init_index", "resize_index"} => k.n = MaxCap
        /\ k.op = "delete_item" => k.n = 1
        /\ k.op = "add_items" => k.ids = {1}}

ApiTask(c) ==
    \/ \E k \in ApiCommands : store_call(c, k)
    \/ store_acquire(c)
    \/ worker_end(c)
    \/ store_finish(c)
    \/ store_return(c)

ApiNext == \E c \in Conns : ApiTask(c)

-----------------------------------------------------------------------------
\* A caller that runs the operations of the store one after the other, and
\* closes the store and opens it again between two operations.
StoreDim == 100
PersistCaller == 1
PersistCommands ==
    {k \in Commands : k.name = "a" /\ k.op \notin {"create_index", "delete_index"}}
    \cup {Op("index_exists", "b"), Op("delete_index", "b"), Op("count", "b"), Op("info", "b")}
    \cup {[Op("create_index", "a") EXCEPT !.space = "l2", !.dim = Dim],
          [Op("create_index", "a") EXCEPT !.space = "cosine", !.dim = StoreDim]}
    \cup {[Op("import_index", nm) EXCEPT !.space = "ip", !.dim = StoreDim, !.n = w] :
             nm \in Names, w \in {NoIndex} \cup UIDs}

\* What is left of a wrapper when the store is closed and the manifest is
\* loaded again: the metadata; the payload is loaded on first use and the
\* lock is new.
cold(o) ==
    [o EXCEPT !.loaded = FALSE, !.mem = [@ EXCEPT !.labels = {}, !.deleted = {}],
              !.readers = 0, !.writer = FALSE]

\* KNNStore.close after the last operation has returned, then open_store on
\* the same path.
reopen ==
    /\ \A c \in Conns : st_pc[c] = "idle"
    /\ obj' = [u \in UIDs |-> IF u < uuid_next THEN cold(obj[u]) ELSE obj[u]]
    /\ UNCHANGED <<indexes, disk, uuid_next, st_pc, cmd, target, wbuf, result, n_create,
                   st_overlap, st_added, st_failed, st_journal>>
    /\ UNCHANGED <<rwVars, exVars, srvVars, lgVars, lifeVars>>

\* The caller issues the commands of K.  It is alone: a lock it finds taken
\* stays taken.
Caller(c, K) ==
    \/ \E k \in K : store_call(c, k)
    \/ worker_end(c)
    \/ store_finish(c)
    \/ store_return(c)

PersistNext ==
    \/ Caller(PersistCaller, PersistCommands)
    \/ reopen

\* The same caller on one index of an open store, with every argument of
\* the data operations.
DataCommands == {k \in Commands : k.name = "a" /\ k.space \in {"", "l2"}}

\* What hnswlib does with a row whose label is marked deleted is not
\* documented: the caller adds no such row.
DataCall(c, k) ==
    /\ (k.op = "add_items" /\ indexes[k.name] # NoIndex)
          => k.ids \cap obj[indexes[k.name]].mem.deleted = {}
    /\ store_call(c, k)

DataNext ==
    \/ \E k \in DataCommands : DataCall(PersistCaller, k)
    \/ worker_end(PersistCaller)
    \/ store_finish(PersistCaller)
    \/ store_return(PersistCaller)

-----------------------------------------------------------------------------
\* Clients that add to one index concurrently (tests/test_multi_connections.py):
\* each client adds labels of its own, any client may resize, and each client
\* keeps account of what its calls returned.
TheIndex == "a"
LabelsOf(c) == {l \in Labels : l % NumConns = c % NumConns}
ClientCommands(c) ==
    {k \in Commands :
        /\ k.name = TheIndex
        /\ k.op \in {"create_index", "init_index", "add_items", "resize_index", "count"}
        /\ k.space \in {"", "l2"}
        /\ k.ids \subseteq LabelsOf(c)}

client_return(c) ==
    /\ st_pc[c] = "returned"
    /\ done(c)
    /\ LET k == cmd[c]
           failed == k.op \in {"add_items", "resize_index"} /\ result[c].state = "FAILED"
       IN  /\ st_failed' = IF failed THEN st_failed \cup {k.name} ELSE st_failed
           /\ st_added' = IF k.op = "add_items" /\ result[c].state = "SUCCEEDED"
                          THEN [st_added EXCEPT ![k.name] = @ \cup k.ids]
                          ELSE st_added
    /\ UNCHANGED <<rwVars, exVars, srvVars, lgVars, lifeVars>>

Client(c) ==
    \/ \E k \in ClientCommands(c) : store_call(c, k)
    \/ store_acquire(c)
    \/ worker_end(c)
    \/ store_finish(c)
    \/ client_return(c)

ClientsNext == \E c \in Conns : Client(c)

-----------------------------------------------------------------------------
(***************************************************************************)
(* Server.connection: one task per connection reads a frame, executes its  *)
(* command on the store, writes the result, and reads the next frame.  The *)
(* peer may write frames ahead of the results.                             *)
(***************************************************************************)
ServerCommands ==
    {k \in Commands :
        /\ k.name = TheIndex
        /\ k.op \in {"create_index", "init_index", "add_items", "count"}
        /\ k.space \in {"", "l2"}
        /\ k.n \in {0, MaxCap}}

\* Server.secret, the keys a peer may hold, and the tokens of ConnectCommand.
ServerKey == 1
NoKey == 0
Keys == 1..NumKeys
NoToken == 0
Tokens == 1..NumTokens
ConnectCommands == {[Op("connect", "") EXCEPT !.n = t] : t \in Tokens}

\* The clock: the instants that matter to a frame written at 0 are FERNET_TTL
\* (the oldest age that still decrypts) and the seconds after it.
FERNET_TTL == 60
MaxTime == FERNET_TTL + MaxLate

\* Fernet(secret).decrypt(data, FERNET_TTL) of a token made under `key` at
\* time ts: InvalidToken unless the keys are equal and ts + ttl >= now.
decrypts_any_age(secret, key, ts) == key = secret
decrypts(secret, key, ts) == key = secret /\ ts + FERNET_TTL >= now

\* A frame on the wire: size 0 (kind "close"), or the encryption under `key`
\* at time ts of a pickled Command, Result, or other object.
NoFrame == [kind |-> "", id |-> 0, cmd |-> NoCommand, res |-> NoResult, key |-> NoKey, ts |-> 0]
CommandFrame(k, key) == [NoFrame EXCEPT !.kind = "command", !.cmd = k, !.key = key]
ObjectFrame(key) == [NoFrame EXCEPT !.kind = "object", !.key = key]
ResultFrame(i, r, key) == [NoFrame EXCEPT !.kind = "result", !.id = i, !.res = r, !.key = key, !.ts = now]
CloseFrame == [NoFrame EXCEPT !.kind = "close"]

\* What a peer can write: a command under the server's key, a command under
\* another key, the close sentinel, and an object that is no command.
Frames ==
    {CommandFrame(k, ServerKey) : k \in ServerCommands}
    \cup {CommandFrame(k, key) : k \in {k \in ServerCommands : k.op = "create_index"},
                                 key \in Keys \ {ServerKey}}
    \cup {CloseFrame, ObjectFrame(ServerKey)}

NoRejected == [id |-> 0, key |-> NoKey, ts |-> 0, at |-> 0, cmd |-> NoCommand]

SrvInit ==
    /\ inbox = [c \in Conns |-> <<>>]
    /\ n_frames = [c \in Conns |-> 0]
    /\ received = [c \in Conns |-> <<>>]
    /\ sent = [c \in Conns |-> <<>>]
    /\ outbox = [c \in Conns |-> <<>>]
    /\ rejected = [c \in Conns |-> NoRejected]
    /\ eos = [c \in Conns |-> 0]
    /\ now = 0
    /\ cl_pc = [c \in Conns |-> "new"]
    /\ cl_secret = [c \in Conns |-> NoKey]
    /\ cl_payload = [c \in Conns |-> NoToken]
    /\ cl_log = [c \in Conns |-> <<>>]

\* receive_obj: None for size 0, InvalidToken when decrypt raises, else the
\* unpickled object (here: its kind).
receive_obj(f, secret) ==
    IF f.kind = "close" THEN "None"
    ELSE IF ~decrypts(secret, f.key, f.ts) THEN "InvalidToken"
    ELSE f.kind

\* receive_command: the Command, None, or Exception('Received unknown object').
receive_command(f, secret) ==
    LET o == receive_obj(f, secret)
    IN  IF o = "command" THEN "Command"
        ELSE IF o \in {"None", "InvalidToken"} THEN o
        ELSE "Exception"

\* Time passes.
tick ==
    /\ now < MaxTime
    /\ now' = IF now < FERNET_TTL THEN FERNET_TTL ELSE now + 1
    /\ UNCHANGED <<inbox, n_frames, received, sent, outbox, rejected, eos, cliVars>>
    /\ UNCHANGED <<rwVars, exVars, stVars, lgVars, lifeVars>>

\* The peer writes a frame.
peer_send(c, f) ==
    /\ n_frames[c] < MaxFrames
    /\ n_frames' = [n_frames EXCEPT ![c] = @ + 1]
    /\ inbox' = [inbox EXCEPT ![c] = Append(@, [f EXCEPT !.id = n_frames[c] + 1, !.ts = now])]
    /\ UNCHANGED <<received, sent, outbox, rejected, eos, now, cliVars>>
    /\ UNCHANGED <<rwVars, exVars, stVars, lgVars, lifeVars>>

\* The connection's task reads the next frame only when it is at
\* _next_command: before the first command, and after send_result.
at_next_command_or_result(c) == st_pc[c] \in {"idle", "returned"}
at_next_command(c) == st_pc[c] = "idle"

\* _next_command got None: the loop ends, the task closes the writer.
end_of_stream_goes_on(c, f) ==
    /\ eos' = [eos EXCEPT ![c] = f.id]
    /\ UNCHANGED <<received, outbox, rejected>>
    /\ UNCHANGED <<indexes, obj, disk, uuid_next, st_pc, cmd, target, wbuf, result,
                   st_overlap, st_added, st_failed, st_journal>>
end_of_stream(c, f) ==
    /\ st_pc' = [st_pc EXCEPT ![c] = "closed"]
    /\ eos' = [eos EXCEPT ![c] = f.id]
    /\ UNCHANGED <<received, outbox, rejected>>
    /\ UNCHANGED <<indexes, obj, disk, uuid_next, cmd, target, wbuf, result,
                   st_overlap, st_added, st_failed, st_journal>>

\* _next_command caught InvalidToken: send_close writes the close sentinel
\* and closes the writer, None ends the loop.
invalid_token_silent(c, f) ==
    /\ rejected' = [rejected EXCEPT ![c] =
                      [id |-> f.id, key |-> f.key, ts |-> f.ts, at |-> now, cmd |-> f.cmd]]
    /\ st_pc' = [st_pc EXCEPT ![c] = "closed"]
    /\ UNCHANGED <<received, outbox, eos>>
    /\ UNCHANGED <<indexes, obj, disk, uuid_next, cmd, target, wbuf, result,
                   st_overlap, st_added, st_failed, st_journal>>
invalid_token(c, f) ==
    /\ outbox' = [outbox EXCEPT ![c] = Append(@, CloseFrame)]
    /\ rejected' = [rejected EXCEPT ![c] =
                      [id |-> f.id, key |-> f.key, ts |-> f.ts, at |-> now, cmd |-> f.cmd]]
    /\ st_pc' = [st_pc EXCEPT ![c] = "closed"]
    /\ UNCHANGED <<received, eos>>
    /\ UNCHANGED <<indexes, obj, disk, uuid_next, cmd, target, wbuf, result,
                   st_overlap, st_added, st_failed, st_journal>>

\* receive_command raised Exception, which _next_command does not catch: the
\* connection's task ends with it, nothing is written, the writer stays open.
unknown_object(c) ==
    /\ st_pc' = [st_pc EXCEPT ![c] = "crashed"]
    /\ UNCHANGED <<received, outbox, rejected, eos>>
    /\ UNCHANGED <<indexes, obj, disk, uuid_next, cmd, target, wbuf, result,
                   st_overlap, st_added, st_failed, st_journal>>

\* _next_command, and for a command the call of command.execute up to its
\* first suspension.
next_command(c) ==
    /\ at_next_command(c)
    /\ inbox[c] # <<>>
    /\ inbox' = [inbox EXCEPT ![c] = Tail(@)]
    /\ LET f == Head(inbox[c])
           o == receive_command(f, ServerKey)
       IN  CASE o = "Command" ->
                  /\ received' = [received EXCEPT ![c] = Append(@, f.id)]
                  /\ execute(c, f.cmd)
                  /\ UNCHANGED <<outbox, rejected, eos>>
             [] o = "None" -> end_of_stream(c, f)
             [] o = "InvalidToken" -> invalid_token(c, f)
             [] o = "Exception" -> unknown_object(c)
    /\ UNCHANGED <<n_frames, sent, n_create, now, cliVars>>
    /\ UNCHANGED <<rwVars, exVars, lgVars, lifeVars>>

\* send_result: the result of the command the task executed, encrypted
\* under the server's key.
send_result(c) ==
    /\ st_pc[c] = "returned"
    /\ sent' = [sent EXCEPT ![c] = Append(@, received[c][Len(received[c])])]
    /\ outbox' = [outbox EXCEPT ![c] =
                     Append(@, ResultFrame(received[c][Len(received[c])], result[c], ServerKey))]
    /\ done(c)
    /\ UNCHANGED <<inbox, n_frames, received, rejected, eos, now, cliVars, st_added, st_failed>>
    /\ UNCHANGED <<rwVars, exVars, lgVars, lifeVars>>

Connection(c) ==
    \/ \E f \in Frames : peer_send(c, f)
    \/ next_command(c)
    \/ store_acquire(c)
    \/ worker_end(c)
    \/ store_finish(c)
    \/ send_result(c)

ServerNext == \E c \in Conns : Connection(c)

-----------------------------------------------------------------------------
(***************************************************************************)
(* Client (src/src/luxdb/client.py): connect sends a ConnectCommand and    *)
(* compares the reply with the token it generated; send_command writes a   *)
(* command and waits for its result; quit writes the close sentinel.       *)
(***************************************************************************)
WireCommands ==
    {k \in Commands :
        /\ k.name = TheIndex
        /\ k.op \in {"create_index", "index_exists"}
        /\ k.space \in {"", "l2"}}

\* The client writes a frame under its key.
client_write(c, f) ==
    /\ n_frames[c] < MaxCalls
    /\ n_frames' = [n_frames EXCEPT ![c] = @ + 1]
    /\ inbox' = [inbox EXCEPT ![c] = Append(@, [f EXCEPT !.id = n_frames[c] + 1, !.ts = now])]

\* Client(host, port, secret).connect, up to the await of the reply.
connect(c, secret, payload) ==
    /\ cl_pc[c] = "new"
    /\ cl_secret' = [cl_secret EXCEPT ![c] = secret]
    /\ cl_payload' = [cl_payload EXCEPT ![c] = payload]
    /\ client_write(c, CommandFrame([Op("connect", "") EXCEPT !.n = payload], secret))
    /\ cl_pc' = [cl_pc EXCEPT ![c] = "connecting"]
    /\ UNCHANGED <<received, sent, outbox, rejected, eos, now, cl_log>>
    /\ UNCHANGED <<rwVars, exVars, stVars, lgVars, lifeVars>>

\* Client.send_command, up to the await of the reply.
send_command(c, k) ==
    /\ cl_pc[c] \in {"ready", "refused"}
    /\ client_write(c, CommandFrame(k, cl_secret[c]))
    /\ cl_pc' = [cl_pc EXCEPT ![c] = "awaiting"]
    /\ UNCHANGED <<received, sent, outbox, rejected, eos, now, cl_secret, cl_payload, cl_log>>
    /\ UNCHANGED <<rwVars, exVars, stVars, lgVars, lifeVars>>

\* Client.quit: send_close.
quit(c) ==
    /\ cl_pc[c] = "ready"
    /\ client_write(c, CloseFrame)
    /\ cl_pc' = [cl_pc EXCEPT ![c] = "quit"]
    /\ UNCHANGED <<received, sent, outbox, rejected, eos, now, cl_secret, cl_payload, cl_log>>
    /\ UNCHANGED <<rwVars, exVars, stVars, lgVars, lifeVars>>

\* Result.get_value: raise_error raises self.data when the state is FAILED
\* (raise None is a TypeError), else the data is the value.
Returned(v) == [raised |-> "", value |-> v]
Raised(e) == [raised |-> e, value |-> 0]
get_value_never_raises(r) == Returned(r.value)
get_value(r) ==
    IF r.state = "FAILED"
    THEN Raised(IF r.error = "None" THEN "TypeError" ELSE r.error)
    ELSE Returned(r.value)

\* receive_result and get_value, as send_command runs them on the reply.
await_result(f, secret) ==
    LET o == receive_obj(f, secret)
    IN  IF o = "InvalidToken" THEN Raised("InvalidToken")
        ELSE IF o = "None" THEN get_value(Failed("None"))
        ELSE IF o = "result" THEN get_value(f.res)
        ELSE Raised("Exception")

\* Client.connect after send_command: a TypeError stands for an empty
\* reply, and the reply must equal the token.
compare_digest_always(a, b) == TRUE
compare_digest(a, b) == a = b
connect_outcome(payload, out) ==
    IF out.raised \notin {"", "TypeError"} THEN out
    ELSE LET reply == IF out.raised = "TypeError" THEN NoToken ELSE out.value
         IN  IF ~compare_digest(payload, reply) THEN Raised("RuntimeError")
             ELSE Returned(0)

\* The client reads the reply it waits for: connect or send_command returns
\* or raises.
client_receive(c) ==
    /\ cl_pc[c] \in {"connecting", "awaiting"}
    /\ outbox[c] # <<>>
    /\ outbox' = [outbox EXCEPT ![c] = Tail(@)]
    /\ LET f == Head(outbox[c])
           out == await_result(f, cl_secret[c])
           end == IF cl_pc[c] = "connecting" THEN connect_outcome(cl_payload[c], out) ELSE out
       IN  /\ cl_log' = [cl_log EXCEPT ![c] =
                            Append(@, [id |-> f.id, kind |-> f.kind, res |-> f.res,
                                       read |-> receive_obj(f, cl_secret[c]) # "InvalidToken",
                                       raised |-> end.raised, value |-> end.value])]
           /\ cl_pc' = [cl_pc EXCEPT ![c] =
                           IF cl_pc[c] = "connecting" /\ end.raised # "" THEN "refused"
                           ELSE "ready"]
    /\ UNCHANGED <<inbox, n_frames, received, sent, rejected, eos, now, cl_secret, cl_payload>>
    /\ UNCHANGED <<rwVars, exVars, stVars, lgVars, lifeVars>>

RemoteClient(c) ==
    \/ \E secret \in Keys, payload \in Tokens : connect(c, secret, payload)
    \/ \E k \in WireCommands : send_command(c, k)
    \/ client_receive(c)
    \/ quit(c)

WireNext ==
    \/ \E c \in Conns : RemoteClient(c)
    \/ \E c \in Conns : next_command(c)
    \/ \E c \in Conns : send_result(c)
    \/ tick

-----------------------------------------------------------------------------
(***************************************************************************)
(* serve, Server.start and the connections of one server process.          *)
(***************************************************************************)

\* serve has opened the store, constructed the Server and installed the
\* handlers of SIGTERM and SIGINT; start has not run yet.
LifeInit ==
    /\ sv_pc = "start"
    /\ sv_server = "None"
    /\ db_open = TRUE
    /\ sv_signals = 0
    /\ sv_errors = 0
    /\ transport = [c \in Conns |-> "none"]

\* The states of the server, read off serve's position and self.server.
ServerState ==
    IF sv_pc = "returned" THEN "Closed"
    ELSE IF sv_server = "None" THEN "Created"
    ELSE IF sv_server = "open" THEN "Listening"
    ELSE "Draining"

\* The commands and frames the peers of this scenario write.
LifeCommands ==
    {k \in ServerCommands :
        /\ k.space = IF k.op = "create_index" THEN "l2" ELSE ""
        /\ k.n = IF k.op = "init_index" THEN MaxCap ELSE 0
        /\ k.ids = IF k.op = "add_items" THEN {1} ELSE {}}
LifeFrames == {CommandFrame(k, ServerKey) : k \in LifeCommands} \cup {CloseFrame}

\* Server.start up to the await in create_server: self.server is None
\* while asyncio.start_server is awaited.
start ==
    /\ sv_pc = "start"
    /\ sv_pc' = "create_server"
    /\ UNCHANGED <<sv_server, db_open, sv_signals, sv_errors, transport>>
    /\ UNCHANGED <<rwVars, exVars, stVars, srvVars, lgVars>>

\* asyncio.start_server returns the listening server, create_server assigns
\* it to self.server, and start goes on to "await self.server.wait_closed()".
create_server ==
    /\ sv_pc = "create_server"
    /\ sv_server' = "open"
    /\ sv_pc' = "wait_closed"
    /\ UNCHANGED <<db_open, sv_signals, sv_errors, transport>>
    /\ UNCHANGED <<rwVars, exVars, stVars, srvVars, lgVars>>

\* The event loop runs the handler of a signal while serve is suspended:
\* shutdown(server, signum) calls server.shutdown(), which is
\* self.server.close().  On None that raises AttributeError, which the loop
\* logs; on the asyncio server it closes the listening sockets.
shutdown ==
    /\ sv_pc # "start"
    /\ sv_signals < MaxSignals
    /\ sv_signals' = sv_signals + 1
    /\ IF sv_server = "None"
       THEN sv_errors' = sv_errors + 1 /\ UNCHANGED sv_server
       ELSE sv_server' = "closed" /\ UNCHANGED sv_errors
    /\ UNCHANGED <<sv_pc, db_open, transport>>
    /\ UNCHANGED <<rwVars, exVars, stVars, srvVars, lgVars>>

\* The listening socket accepts a connection: the task of
\* Server.connection starts, at its first _next_command.
accept(c) ==
    /\ sv_pc = "wait_closed"
    /\ sv_server = "open"
    /\ transport[c] = "none"
    /\ transport' = [transport EXCEPT ![c] = "open"]
    /\ UNCHANGED <<sv_pc, sv_server, db_open, sv_signals, sv_errors>>
    /\ UNCHANGED <<rwVars, exVars, stVars, srvVars, lgVars>>

\* The connections the asyncio server counts as active: accepted, not lost,
\* and not closed by writer.close().
Attached(c) == transport[c] = "open" /\ st_pc[c] # "closed"

\* The connection is dropped: the transport is lost whatever its task does.
connection_lost(c) ==
    /\ Attached(c)
    /\ sv_pc # "returned"
    /\ transport' = [transport EXCEPT ![c] = "lost"]
    /\ UNCHANGED <<sv_pc, sv_server, db_open, sv_signals, sv_errors>>
    /\ UNCHANGED <<rwVars, exVars, stVars, srvVars, lgVars>>

\* wait_closed returns once the sockets are closed and no connection is
\* active; start returns, and serve leaves "with open_store(...)", whose
\* finally clause calls store.close().  When serve has returned the tasks that
\* are left are cancelled.
wait_closed ==
    /\ sv_pc = "wait_closed"
    /\ sv_server = "closed"
    /\ \A c \in Conns : ~Attached(c)
    /\ sv_pc' = "returned"
    /\ db_open' = FALSE
    /\ UNCHANGED <<sv_server, sv_signals, sv_errors, transport>>
    /\ UNCHANGED <<rwVars, exVars, stVars, srvVars, lgVars>>

\* The task of a connection exists from accept until serve has returned.
TaskAlive(c) == transport[c] # "none" /\ sv_pc # "returned"

\* The peer of an open connection writes a frame.
peer_write(c, f) ==
    /\ Attached(c)
    /\ st_pc[c] # "crashed"
    /\ sv_pc # "returned"
    /\ peer_send(c, f)

\* readexactly on a lost connection raises: the task ends.
read_lost(c) ==
    /\ TaskAlive(c)
    /\ transport[c] = "lost"
    /\ st_pc[c] = "idle"
    /\ st_pc' = [st_pc EXCEPT ![c] = "crashed"]
    /\ UNCHANGED <<indexes, obj, disk, uuid_next, cmd, target, wbuf, result, n_create,
                   st_overlap, st_added, st_failed, st_journal>>
    /\ UNCHANGED <<rwVars, exVars, srvVars, lgVars, lifeVars>>

\* send_result on a lost connection: nothing reaches the peer, drain raises,
\* the task ends.
send_lost(c) ==
    /\ TaskAlive(c)
    /\ transport[c] = "lost"
    /\ st_pc[c] = "returned"
    /\ st_pc' = [st_pc EXCEPT ![c] = "crashed"]
    /\ UNCHANGED <<indexes, obj, disk, uuid_next, cmd, target, wbuf, result, n_create,
                   st_overlap, st_added, st_failed, st_journal>>
    /\ UNCHANGED <<rwVars, exVars, srvVars, lgVars, lifeVars>>

\* The steps of the task of Server.connection.
LifeProgress(c) ==
    /\ TaskAlive(c)
    /\ \/ transport[c] = "open" /\ next_command(c)
       \/ read_lost(c)
       \/ store_acquire(c)
       \/ worker_end(c)
       \/ store_finish(c)
       \/ transport[c] = "open" /\ send_result(c)
       \/ send_lost(c)

LifeNext ==
    \/ start
    \/ create_server
    \/ shutdown
    \/ wait_closed
    \/ \E c \in Conns : accept(c)
    \/ \E c \in Conns : connection_lost(c)
    \/ \E c \in Conns, f \in LifeFrames : peer_write(c, f)
    \/ \E c \in Conns : LifeProgress(c)

-----------------------------------------------------------------------------
Init == RWInit /\ ExInit /\ StInit /\ SrvInit /\ LgInit /\ LifeInit

SpecRW == Init /\ [][RWNext]_vars

\* Fair scheduling: a thread that is inside a call, or inside its critical
\* section, and can step infinitely often does step (threads are scheduled,
\* a thread blocked on a Lock gets it when it is free often enough, and every
\* holder releases).  Whether a thread starts a new call is up to the caller.
FairSpecRW == SpecRW /\ \A t \in Threads : SF_vars(RWProgress(t))

SpecEx == Init /\ [][ExNext]_vars

FairSpecEx == SpecEx /\ \A t \in ExThreads : SF_vars(ExProgress(t))

SpecLegacy == Init /\ [][LegacyNext]_vars

SpecRegistry == Init /\ [][LgNext]_vars

SpecPersist == Init /\ [][PersistNext]_vars

SpecData == Init /\ [][DataNext]_vars

SpecStore == Init /\ [][StoreNext]_vars

SpecClients == Init /\ [][ClientsNext]_vars

SpecApi == Init /\ [][ApiNext]_vars

SpecServer == Init /\ [][ServerNext]_vars

SpecWire == Init /\ [][WireNext]_vars

SpecLife == Init /\ [][LifeNext]_vars

\* The event loop runs every task and callback that is ready: serve goes on
\* when what it awaits is done, and so does the task of each connection.
\* Signals, peers and the loss of a connection are up to the environment.
FairSpecLife ==
    /\ SpecLife
    /\ WF_vars(start) /\ WF_vars(create_server) /\ WF_vars(wait_closed)
    /\ \A c \in Conns : WF_vars(LifeProgress(c))

-----------------------------------------------------------------------------
(***************************************************************************)
(* Claims about ReadWriteLock.                                             *)
(***************************************************************************)
Writers == {t \in Threads : rw_pc[t] = "writing"}
Readers == {t \in Threads : rw_pc[t] = "reading"}

\* C1: in every reachable state either no writer holds the lock, or exactly
\* one writer holds it, the reader count is 0 and no reader is inside its
\* critical section.
C1_WriterExcludesAll ==
    \/ Writers = {}
    \/ /\ Cardinality(Writers) = 1
       /\ readers = 0
       /\ Readers = {}

\* C1 witness: a writer that had to wait for readers holds the lock.
C1_Witness == \E t \in Threads : rw_pc[t] = "writing" /\ rw_waited[t]

\* C2 (as stated): a reader whose acquire_read started while a writer was
\* waiting for the readers to drain is not inside its critical section
\* before that writer has acquired and released the lock.
C2_WriterPriority == \A t \in Threads : rw_pc[t] = "reading" => rw_pending[t] = {}

\* C2 (amended): a reader whose acquire_read started while a writer held the
\* lock is not inside its critical section before that writer has released.
C2_HolderBlocksReaders == \A t \in Threads : rw_pc[t] = "reading" => rw_held[t] = {}

\* C2 witness: a reader is inside its critical section after an
\* acquire_read that started while a writer held the lock.
C2_Witness == \E t \in Threads : rw_pc[t] = "reading" /\ rw_saw[t]

InAcquireWrite(t) == rw_pc[t] \in {"acquire_write", "waiting", "notified"}

\* C3 (as stated): every call to acquire_write eventually returns.
C3_NoWriterStarvation ==
    \A t \in Threads : InAcquireWrite(t) ~> (rw_pc[t] = "writing")

\* C3 (amended): once no new acquire_read call starts, every call to
\* acquire_write eventually returns.
C3_WriterReturnsOnceReadersStop ==
    \A t \in Threads : (InAcquireWrite(t) /\ ~rw_open) ~> (rw_pc[t] = "writing")

\* C3 witness: a writer that had to wait for readers holds the lock after
\* the readers stopped arriving.
C3_Witness == \E t \in Threads : rw_pc[t] = "writing" /\ rw_waited[t] /\ ~rw_open

-----------------------------------------------------------------------------
(***************************************************************************)
(* Claims about ExclusiveLock.                                             *)
(***************************************************************************)
Holds(t, s) == ex_pc[t] = "held" /\ ex_req[t] = s

\* C4: no two threads hold different states at the same moment (acquire has
\* returned and release has not yet been called for both).
C4_StatesExclusive ==
    \A t1, t2 \in ExThreads :
        (ex_pc[t1] = "held" /\ ex_pc[t2] = "held") => ex_req[t1] = ex_req[t2]

\* C4 witness: a thread holds a state while another thread waits in acquire
\* for a different state.
C4_Witness ==
    \E t1, t2 \in ExThreads :
        ex_pc[t1] = "held" /\ ex_pc[t2] = "acquire_wait" /\ ex_req[t1] # ex_req[t2]

\* C5: while some thread holds state s, a thread in acquire(s) is never
\* waiting on the condition, and when it evaluates the wait_for predicate
\* the Lock of s is free, so it goes on without any holder releasing.
C5_SameStateEntersFreely ==
    \A t \in ExThreads :
        (\E h \in ExThreads \ {t} : Holds(h, ex_req[t])) =>
            /\ ex_pc[t] # "acquire_wait"
            /\ (ex_pc[t] = "acquire_test" => ~locks[ex_req[t]])

\* C5 witness: every thread of the model holds the same state at once.
C5_Witness == \E s \in EXCLUSIVE_STATES : \A t \in ExThreads : Holds(t, s)

\* C6 (as stated): once the last holder of state s has released while a
\* thread waited in acquire for another state, and no thread enters s
\* again, the waiting thread eventually returns from acquire.
C6_HandOver ==
    \A t \in ExThreads : \A s \in EXCLUSIVE_STATES :
        []((s \in ex_handover[t] /\ [](counters[s] = 0)) => <>(ex_pc[t] = "held"))

\* C6 (amended): once the last holder of a state has released while a
\* thread waited in acquire for another state, and no new acquire call
\* starts any more, the waiting thread eventually returns from acquire; and
\* whenever all counters are 0 and no thread is inside the state_lock
\* block, all three per-state Locks are free.
C6_HandOverOnceCallsStop ==
    /\ \A t \in ExThreads :
          (ex_handover[t] # {} /\ ~ex_open) ~> (ex_pc[t] = "held")
    /\ []((state_lock = NoThread /\ \A s \in EXCLUSIVE_STATES : counters[s] = 0)
            => \A s \in EXCLUSIVE_STATES : ~locks[s])

\* C6 witness: a thread holds its state after it saw another state handed
\* over while it waited, with new acquire calls stopped.
C6_Witness ==
    \E t \in ExThreads : ex_pc[t] = "held" /\ ex_handover[t] # {} /\ ~ex_open

-----------------------------------------------------------------------------
Locked(u, c) ==
    \/ obj[u].writer
    \/ obj[u].readers > 0
    \/ \E c2 \in Conns \ {c} : /\ st_pc[c2] = "wait"
                                 /\ target[c2] = u
                                 /\ OpClass(cmd[c2].op) = "write"

\* C8: a command waits only for the lock of the index it targets: while an
\* executor operation is in progress on index A, a command on another index B
\* whose lock is free goes on, and a registry command never waits.
C8_OtherIndexGoesOn ==
    \A c \in Conns :
        st_pc[c] = "wait" =>
            /\ cmd[c].op \notin SyncOps
            /\ Locked(target[c], c) \/ ENABLED store_acquire(c)

\* Two executor operations are in progress on two indexes at once.
C8_Witness ==
    \E c1, c2 \in Conns :
        /\ st_pc[c1] = "running"
        /\ st_pc[c2] = "running"
        /\ target[c1] # target[c2]

\* An add_items or resize_index call of a client on the index of name nm has
\* not returned to its client yet.
Outstanding(nm) ==
    \E c \in Conns : cmd[c].name = nm /\ cmd[c].op \in {"add_items", "resize_index"}

\* C9: clients add labels of their own to one index concurrently, and a
\* client may resize it in between; once every add_items and resize_index
\* call has returned, and all of them successfully, count(name) is the number
\* of labels added.
C9_NoAddLost ==
    \A nm \in Names :
        (indexes[nm] # NoIndex /\ nm \notin st_failed /\ ~Outstanding(nm))
           => body(Op("count", nm), obj[indexes[nm]].mem)[2]
                 = Succeeded(Cardinality(st_added[nm]), {})

\* Every client has added its labels, the index was resized, and all calls
\* have returned successfully.
C9_Witness ==
    /\ st_added[TheIndex] = Labels
    /\ TheIndex \notin st_failed
    /\ \A c \in Conns : st_pc[c] = "idle"
    /\ indexes[TheIndex] # NoIndex
    /\ disk[indexes[TheIndex]].data.labels = Labels

-----------------------------------------------------------------------------
(***************************************************************************)
(* Claims about the server's connections.                                  *)
(***************************************************************************)
Busy(c) == st_pc[c] \in {"wait", "running", "finished", "returned"}

\* C10: on each connection the results written are, in order, the results
\* of the commands received, one for each; the server has received at most
\* one command more than it has written results, and that only while it
\* executes that command: it reads no command before it has written the
\* result of the one before.
C10_OneResultPerCommandInOrder ==
    \A c \in Conns :
        /\ Len(sent[c]) <= Len(received[c])
        /\ Len(received[c]) <= Len(sent[c]) + 1
        /\ \A i \in 1..Len(sent[c]) : sent[c][i] = received[c][i]
        /\ Busy(c) <=> Len(received[c]) = Len(sent[c]) + 1

\* The peer has written its second command while the first is executed, and
\* the server has left it unread.
C10_Witness ==
    \E c \in Conns :
        /\ st_pc[c] = "running"
        /\ Len(received[c]) = 1
        /\ sent[c] = <<>>
        /\ inbox[c] # <<>>
        /\ Head(inbox[c]).kind = "command"

-----------------------------------------------------------------------------
(***************************************************************************)
(* Claims about errors and rejected frames on a connection.                *)
(***************************************************************************)
Call(c, i) == cl_log[c][i]
FailedInStore(e) == e.kind = "result" /\ e.read /\ e.res.state = "FAILED"

\* C11: when a command fails in the store, the result the server sends is
\* FAILED and carries the exception, the client's call raises an exception
\* of that type, and the connection stays open: the server's task waits for
\* the next command, and the next command the client sends on the connection
\* is executed and answered with a result (unless its frame is itself
\* rejected with InvalidToken).
C11_FailureKeepsConnection ==
    \A c \in Conns : \A i \in DOMAIN cl_log[c] :
        FailedInStore(Call(c, i)) =>
            /\ Call(c, i).res.error # ""
            /\ Call(c, i).raised = Call(c, i).res.error
            /\ (i = Len(cl_log[c]) /\ cl_pc[c] = "ready") => st_pc[c] = "idle"
            /\ i < Len(cl_log[c]) =>
                  \/ /\ Call(c, i + 1).kind = "result"
                     /\ Call(c, i + 1).id = Call(c, i).id + 1
                     /\ \E j \in DOMAIN received[c] : received[c][j] = Call(c, i + 1).id
                  \/ /\ Call(c, i + 1).kind = "close"
                     /\ rejected[c] # NoRejected

\* C11 witness: create_index on an existing name raised
\* IndexAlreadyExists at the client, and the client's next call on the
\* same connection returned a value.
C11_Witness ==
    \E c \in Conns :
        /\ Len(cl_log[c]) = 3
        /\ FailedInStore(Call(c, 2))
        /\ Call(c, 2).raised = "IndexAlreadyExists"
        /\ Call(c, 3).kind = "result" /\ Call(c, 3).read
        /\ Call(c, 3).raised = "" /\ Call(c, 3).value = 1

Results(c) == {i \in DOMAIN outbox[c] : outbox[c][i].kind = "result"}
Sentinels(c) == {i \in DOMAIN outbox[c] : outbox[c][i].kind = "close"}

\* C12: once a connection's task got InvalidToken for a frame, first or
\* later, that frame's command was not executed (it is not among the
\* received commands, and the task executes no command), the server wrote no
\* result for it, the last and only thing it wrote after the results of the
\* earlier commands is the close sentinel, and the connection is closed.
C12_InvalidTokenClosesSilently ==
    \A c \in Conns :
        rejected[c] # NoRejected =>
            /\ \A j \in DOMAIN received[c] : received[c][j] < rejected[c].id
            /\ \A i \in Results(c) : outbox[c][i].id < rejected[c].id
            /\ Cardinality(Results(c)) = Len(received[c])
            /\ Sentinels(c) = {Len(outbox[c])}
            /\ st_pc[c] = "closed"
            /\ cmd[c] = NoCommand

\* C12 witness: a frame under another key was rejected after an earlier
\* command of the same connection had been executed and answered.
C12_Witness ==
    \E c \in Conns :
        /\ rejected[c].id = 2
        /\ rejected[c].key # ServerKey
        /\ Len(sent[c]) = 1
        /\ Len(outbox[c]) = 2

\* The reply the client read for its ConnectCommand carries the client's token.
EchoRead(c) ==
    /\ Call(c, 1).kind = "result"
    /\ Call(c, 1).read
    /\ Call(c, 1).res.state = "SUCCEEDED"
    /\ Call(c, 1).res.value = cl_payload[c]

\* C13: connect returns normally exactly when the reply the client reads
\* for its ConnectCommand carries the token the client generated, and then
\* the client's key is the server's key; a client whose secret differs from
\* the server's gets RuntimeError from connect, and none of its commands,
\* the ConnectCommand included, is ever executed by the server.
C13_HandshakeProvesSecret ==
    \A c \in Conns :
        /\ Len(cl_log[c]) >= 1 =>
              /\ (Call(c, 1).raised = "") <=> EchoRead(c)
              /\ (Call(c, 1).raised = "") => cl_secret[c] = ServerKey
        /\ cl_secret[c] \notin {NoKey, ServerKey} =>
              /\ received[c] = <<>>
              /\ cmd[c] = NoCommand
              /\ cl_pc[c] # "ready"
              /\ Len(cl_log[c]) >= 1 => Call(c, 1).raised = "RuntimeError"

\* C13 witness: one client with another secret got RuntimeError from
\* connect and sent a command all the same, and one client with the
\* server's secret is connected.
C13_Witness ==
    \E c, c2 \in Conns :
        /\ cl_secret[c] \notin {NoKey, ServerKey}
        /\ Len(cl_log[c]) = 1 /\ Call(c, 1).raised = "RuntimeError"
        /\ n_frames[c] = 2
        /\ cl_secret[c2] = ServerKey
        /\ Len(cl_log[c2]) = 1 /\ Call(c2, 1).raised = ""
        /\ cl_pc[c2] = "ready"

\* C14: the server executes the command of a frame only if the frame was
\* encrypted under the server's key at most FERNET_TTL seconds before it is
\* received; a frame older than that is rejected with InvalidToken, and its
\* command is never executed, even under the correct key.
C14_StaleFrameRejected ==
    [][\A c \in Conns :
          LET f == Head(inbox[c])
          IN  /\ received'[c] # received[c] => (f.key = ServerKey /\ now - f.ts <= FERNET_TTL)
              /\ (inbox'[c] # inbox[c] /\ inbox[c] # <<>> /\ Len(inbox'[c]) < Len(inbox[c])
                  /\ f.kind = "command" /\ now - f.ts > FERNET_TTL)
                    => /\ rejected'[c].id = f.id
                       /\ received'[c] = received[c]
                       /\ UNCHANGED <<indexes, obj, disk, uuid_next>>]_vars

\* C14 witness: a command frame under the server's key was rejected because
\* it was received more than FERNET_TTL seconds after it was encrypted.
C14_Witness ==
    \E c \in Conns :
        /\ rejected[c].key = ServerKey
        /\ rejected[c].cmd.op # ""
        /\ rejected[c].at - rejected[c].ts > FERNET_TTL
        /\ \A j \in DOMAIN received[c] : received[c][j] # rejected[c].id

\* C15: once the task read the close sentinel, its loop has ended and the
\* writer is closed: the commands it executed are those of the frames before
\* the sentinel, each has its result, nothing was written for the sentinel,
\* and the frames the peer wrote after the sentinel stay unread.
C15_SentinelEndsLoop ==
    \A c \in Conns :
        eos[c] # 0 =>
            /\ st_pc[c] = "closed"
            /\ cmd[c] = NoCommand
            /\ \A j \in DOMAIN received[c] : received[c][j] < eos[c]
            /\ sent[c] = received[c]
            /\ Results(c) = DOMAIN outbox[c]
            /\ Len(outbox[c]) = Len(received[c])
            /\ \A i \in DOMAIN inbox[c] : inbox[c][i].id > eos[c]

\* C15 witness: the sentinel ended the loop after an answered command, and
\* a command the peer wrote after the sentinel is still unread.
C15_Witness ==
    \E c \in Conns :
        /\ eos[c] # 0
        /\ inbox[c] # <<>>
        /\ Head(inbox[c]).kind = "command"
        /\ Head(inbox[c]).key = ServerKey
        /\ \E c2 \in Conns : eos[c2] = 2 /\ Len(sent[c2]) = 1

\* C16: when the task reads a frame that decrypts to an object that is no
\* Command, the store is unchanged, the task does not end: it has a FAILED
\* result with NotACommand to send for that frame, and serves on.
C16_NonCommandAnswered ==
    [][\A c \in Conns :
          (/\ inbox[c] # <<>>
           /\ inbox'[c] = Tail(inbox[c])
           /\ receive_command(Head(inbox[c]), ServerKey) = "Exception")
            => /\ UNCHANGED <<indexes, obj, disk, uuid_next>>
               /\ st_pc'[c] = "returned"
               /\ result'[c] = Failed("NotACommand")]_vars

-----------------------------------------------------------------------------
(***************************************************************************)
(* Claims about the registry and the state of an index.                    *)
(***************************************************************************)
\* Task c calls an operation in this step.
Calls(c) == st_pc[c] = "idle" /\ st_pc'[c] # "idle"

\* C17: a create_index call whose space is not l2, ip or cosine fails with
\* UnknownSpace, one whose name is in the registry fails with
\* IndexAlreadyExists, and both leave the registry, the Index objects and
\* the snapshot files as they are; any other create_index call returns
\* true, and afterwards the name is in the registry with an Index object
\* that is not initialized (M = 0), the other names being as before.
C17_CreateIndex ==
    [][\A c \in Conns :
          (Calls(c) /\ cmd'[c].op = "create_index") =>
              LET k == cmd'[c]
              IN  /\ st_pc'[c] = "returned"
                  /\ IF k.space \notin {"l2", "ip", "cosine"}
                     THEN /\ result'[c] = Failed("UnknownSpace")
                          /\ UNCHANGED <<indexes, obj, disk>>
                     ELSE IF indexes[k.name] # NoIndex
                     THEN /\ result'[c] = Failed("IndexAlreadyExists")
                          /\ UNCHANGED <<indexes, obj, disk>>
                     ELSE /\ result'[c] = Succeeded(1, {})
                          /\ indexes'[k.name] # NoIndex
                          /\ obj'[indexes'[k.name]].mem.M = 0
                          /\ \A nm \in Names \ {k.name} : indexes'[nm] = indexes[nm]
                          /\ \A nm \in Names : indexes[nm] # NoIndex =>
                                 /\ indexes'[k.name] # indexes[nm]
                                 /\ obj'[indexes[nm]] = obj[indexes[nm]]]_vars

\* C17 witness: a create_index has failed with IndexAlreadyExists on a
\* name whose index is initialized and holds an item, and the index is
\* still there.
C17_Witness ==
    \E c \in Conns :
        /\ st_pc[c] = "returned" /\ cmd[c].op = "create_index"
        /\ result[c] = Failed("IndexAlreadyExists")
        /\ indexes[cmd[c].name] # NoIndex
        /\ obj[indexes[cmd[c].name]].mem.labels # {}

\* C18: every call of an operation that takes the name of an index to work
\* on (all but create_index and index_exists), delete_index included, fails
\* with IndexDoesNotExist when the name is not in the registry, and leaves
\* the registry as it is.
C18_MissingNameFails ==
    [][\A c \in Conns :
          (/\ Calls(c)
           /\ cmd'[c].op \notin {"create_index", "index_exists"}
           /\ indexes[cmd'[c].name] = NoIndex)
            => /\ st_pc'[c] = "returned"
               /\ result'[c] = Failed("IndexDoesNotExist")
               /\ indexes' = indexes]_vars

\* The Index objects that were in the registry and have been removed.
Removed == {u \in UIDs : u < uuid_next /\ \A nm \in Names : indexes[nm] # u}

\* C19: once delete_index has removed an index and no task is inside an
\* operation on its Index object, the name it had does not lead to that
\* object any more, and the object's snapshot file is not on disk.
C19_DeleteRemovesSnapshot ==
    \A u \in Removed :
        (\A c \in Conns : target[c] # u) => ~disk[u].exists

\* The operations that need an initialized index.
NeedInit == {"add_items", "query_index", "resize_index", "delete_item", "set_ef",
             "get_items", "get_ids", "count", "max_elements", "info"}

\* C20: an index has M = 0 until an init_index on it succeeds, and every
\* call of an operation that needs an initialized index on one that is not
\* fails with IndexNotInitialized and leaves the index's contents, in
\* memory and on disk, as they are.  (No operation stays inside an index
\* that is not initialized, so such a call has nothing to wait for.)
C20_UninitializedFails ==
    [][\A c \in Conns :
          (/\ Calls(c)
           /\ cmd'[c].op \in NeedInit
           /\ indexes[cmd'[c].name] # NoIndex
           /\ obj[indexes[cmd'[c].name]].mem.M = 0)
            => /\ st_pc'[c] = "returned"
               /\ result'[c] = Failed("IndexNotInitialized")
               /\ obj'[indexes[cmd'[c].name]].mem = obj[indexes[cmd'[c].name]].mem
               /\ disk' = disk]_vars

-----------------------------------------------------------------------------
\* C22: when add_items has failed (more rows than the index has room for),
\* the lock of the index is released: once no thread is inside an operation
\* the lock is free, so that a following resize_index or add_items has
\* nothing to wait for.
C22_FailedAddReleasesLock ==
    (\A t \in ExThreads : ex_pc[t] = "idle")
        => \A s \in EXCLUSIVE_STATES : counters[s] = 0 /\ ~locks[s]

-----------------------------------------------------------------------------
\* What the read operations find in Index object u: the payload in memory,
\* or the snapshot that the next read loads.
ViewOf(o, f) == read_from_path(o, f).mem
View(u) == ViewOf(obj[u], disk[u])

\* C21: a call of init_index on an index that is initialized (M # 0) fails
\* with RuntimeError, whether it is the first InitIndexCommand executed
\* again or another one, and the index keeps its max_elements,
\* ef_construction, M and contents, in memory and for the reads to come.
C21_InitTwiceFails ==
    [][\A c \in Conns :
          (/\ Calls(c)
           /\ cmd'[c].op = "init_index"
           /\ indexes[cmd'[c].name] # NoIndex
           /\ obj[indexes[cmd'[c].name]].mem.M # 0)
            => /\ st_pc'[c] = "returned"
               /\ result'[c] = Failed("RuntimeError")
               /\ obj'[indexes[cmd'[c].name]].mem = obj[indexes[cmd'[c].name]].mem
               /\ ViewOf(obj'[indexes[cmd'[c].name]], disk'[indexes[cmd'[c].name]])
                     = View(indexes[cmd'[c].name])]_vars

\* An init_index has failed on an index that holds an item.
C21_Witness ==
    \E c \in Conns :
        /\ st_pc[c] = "returned"
        /\ cmd[c].op = "init_index"
        /\ result[c] = Failed("RuntimeError")
        /\ indexes[cmd[c].name] # NoIndex
        /\ View(indexes[cmd[c].name]).labels # {}
        /\ View(indexes[cmd[c].name]).max_elements # cmd[c].n

-----------------------------------------------------------------------------
\* Index.get_current_count of Index object u.
element_count(u) == Cardinality(obj[u].mem.labels)

-----------------------------------------------------------------------------
-----------------------------------------------------------------------------
\* C25: the Index object that create_index makes has the space and the dim
\* of the call, no step of any operation (init_index, add_items, set_ef,
\* resize_index, delete_item, closing and reopening the store, ...) changes
\* the space or the dim of an Index object that exists, and info reports
\* the space and the dim of the Index object it is called on.
C25_SpaceAndDimFixed ==
    [][/\ \A u \in UIDs :
             u < uuid_next => obj'[u].space = obj[u].space /\ obj'[u].dim = obj[u].dim
       /\ \A c \in Conns :
             /\ (Calls(c) /\ cmd'[c].op = "create_index" /\ result'[c].state = "SUCCEEDED")
                   => /\ indexes'[cmd'[c].name] = uuid_next
                      /\ obj'[uuid_next].space = cmd'[c].space
                      /\ obj'[uuid_next].dim = cmd'[c].dim
             /\ (st_pc[c] # "returned" /\ st_pc'[c] = "returned"
                   /\ cmd'[c].op = "info" /\ result'[c].state = "SUCCEEDED")
                   => /\ result'[c].space = obj[indexes[cmd'[c].name]].space
                      /\ result'[c].dim = obj[indexes[cmd'[c].name]].dim]_vars

\* info has reported the parameters of an index that was created with
\* space cosine and dim StoreDim and then filled, after a delete_item and a
\* set_ef on it.
C25_Witness ==
    \E c \in Conns :
        /\ st_pc[c] = "returned"
        /\ cmd[c].op = "info"
        /\ result[c].state = "SUCCEEDED"
        /\ result[c].space = "cosine"
        /\ result[c].dim = StoreDim
        /\ result[c].ids = Labels
        /\ disk[indexes[cmd[c].name]].data.deleted # {}
        /\ disk[indexes[cmd[c].name]].data.ef = NewEf

-----------------------------------------------------------------------------
\* C26: after any sequence of create_index, import_index and delete_index
\* calls, no two names of the registry lead to indexes with the same UUID.
C26_UniqueUUIDs ==
    \A n1 \in Names, n2 \in Names :
        (n1 # n2 /\ indexes[n1] # NoIndex) => indexes[n1] # indexes[n2]

-----------------------------------------------------------------------------
-----------------------------------------------------------------------------
-----------------------------------------------------------------------------
\* What index_exists, count, max_elements and get_ids return for a name.
Observe(nm) ==
    LET u == indexes[nm]
    IN  IF u = NoIndex THEN <<FALSE>>
        ELSE IF View(u).M = 0 THEN <<TRUE, Failed("IndexNotInitialized")>>
        ELSE <<TRUE, body(Op("count", nm), View(u))[2],
                     body(Op("max_elements", nm), View(u))[2],
                     body(Op("get_ids", nm), View(u))[2]>>

\* C29: closing the store after the last operation has returned and opening
\* it again from the same path changes nothing in what index_exists, count,
\* max_elements and get_ids return, for every name.
C29_RoundTrip ==
    [][(\A c \in Conns : st_pc[c] = "idle" /\ st_pc'[c] = "idle")
          => \A nm \in Names : Observe(nm)' = Observe(nm)]_vars

\* The store has been opened again, and index "a" is still to be loaded
\* from its snapshot, which holds two rows, one of them marked deleted.
C29_Witness ==
    /\ \A c \in Conns : st_pc[c] = "idle"
    /\ indexes["a"] # NoIndex
    /\ ~obj[indexes["a"]].loaded
    /\ disk[indexes["a"]].data.labels = Labels
    /\ disk[indexes["a"]].data.deleted = {1}
    /\ indexes["b"] = NoIndex
    /\ disk[indexes["a"]].data.max_elements = MaxCap

-----------------------------------------------------------------------------
\* C30: in every operation that changes the data of an index the manifest
\* transaction is committed last: after the change in memory and after the
\* snapshot file has been written, so that the manifest is never committed
\* ahead of the snapshot.
C30_SnapshotBeforeCommit ==
    \A c \in Conns :
        \A i \in 1..Len(st_journal[c]) :
            st_journal[c][i] = "commit"
                => \E m \in 1..i, w \in 1..i :
                      /\ m < w /\ w < i
                      /\ st_journal[c][m] = "mutate"
                      /\ st_journal[c][w] = "write_to_path"

-----------------------------------------------------------------------------
\* The threads that hold state s: acquire(s) has counted them and their
\* release(s) has not yet taken them off the counter.
HoldersOf(s) == {t \in Holders : ex_req[t] = s}

\* C40: whenever no thread is inside the state_lock block of the
\* ExclusiveLock, counters[s] is the number of threads that hold s and is
\* not negative, at most one state has a counter above 0, and the Lock of a
\* state is locked exactly when another state has a counter above 0.
C40_CountersAndLocks ==
    state_lock = NoThread =>
        /\ \A s \in EXCLUSIVE_STATES :
              /\ counters[s] = Cardinality(HoldersOf(s))
              /\ counters[s] >= 0
        /\ Cardinality({s \in EXCLUSIVE_STATES : counters[s] > 0}) <= 1
        /\ \A s \in EXCLUSIVE_STATES :
              locks[s] <=> \E o \in EXCLUSIVE_STATES \ {s} : counters[o] > 0

\* Two threads hold "query" at once, nobody is inside the state_lock block,
\* and the Locks of "add" and "resize" are locked.
C40_Witness ==
    /\ state_lock = NoThread
    /\ counters["query"] = 2
    /\ locks["add"] /\ locks["resize"] /\ ~locks["query"]

-----------------------------------------------------------------------------
\* A thread is blocked inside acquire or release: it waits for state_lock or
\* on the condition.
Blocked(t) ==
    \/ ex_pc[t] \in {"acquire_wait", "release_wait"}
    \/ /\ ex_pc[t] \in {"acquire", "acquire_notified", "release", "release_notified"}
       /\ state_lock # NoThread

\* C39: ExclusiveLock is free of deadlock.  In every state in which a thread
\* is blocked inside acquire or release, some thread can take a step of a
\* call or call release for the state it holds; and release never waits for
\* the Lock of the state it gives back.
C39_DeadlockFree ==
    /\ (\E t \in ExThreads : Blocked(t)) => \E t \in ExThreads : ENABLED ExProgress(t)
    /\ \A t \in ExThreads : ex_pc[t] \notin {"release_wait", "release_notified"}

\* A thread waits on the condition in acquire while every other thread
\* holds another state, and no new acquire call starts any more.
C39_Witness ==
    /\ ~ex_open
    /\ \E t \in ExThreads :
          /\ ex_pc[t] = "acquire_wait"
          /\ \A o \in ExThreads \ {t} : ex_pc[o] = "held" /\ ex_req[o] # ex_req[t]

-----------------------------------------------------------------------------
\* C36: every store operation gives back the lock it has acquired on an
\* index on every path out of the operation.  So the lock of an index on
\* which no operation is in progress is free, and an init_index that waits
\* for the lock of such an index can acquire it.
C36_LockReleasedOnEveryPath ==
    \A u \in UIDs :
        InProgress(u) = {} =>
            /\ obj[lock_of(u)].readers = 0
            /\ ~obj[lock_of(u)].writer
            /\ \A c \in Conns :
                  (st_pc[c] = "wait" /\ target[c] = u /\ cmd[c].op = "init_index")
                      => can_acquire(lock_of(u), "init", c)

-----------------------------------------------------------------------------
-----------------------------------------------------------------------------
\* C34: Command.execute never raises an Exception.  A command that has not
\* been executed is in state CREATED; while its operation is suspended it is
\* in state EXECUTED; when execute returns, the command is in state
\* SUCCEEDED with the value the operation returned (here: what
\* index_exists, count and max_elements report), or in state FAILED with
\* the exception the operation raised, whether it is one of the store's own
\* or not; no other state comes back.
C34_ExecuteNeverRaises ==
    \A c \in Conns :
        LET r == result[c]
            u == indexes[cmd[c].name]
        IN  /\ st_pc[c] = "idle" => r = NoResult
            /\ st_pc[c] \in {"wait", "running"} => r = Executing
            /\ st_pc[c] = "returned" =>
                  /\ r.state \in {"SUCCEEDED", "FAILED"}
                  /\ r.state = "SUCCEEDED" => r.error = ""
                  /\ r.state = "FAILED" => r.error # "" /\ r = Failed(r.error)
                  /\ (cmd[c].op = "index_exists")
                        => r = Succeeded(IF u # NoIndex THEN 1 ELSE 0, {})
                  /\ (cmd[c].op = "count" /\ r.state = "SUCCEEDED")
                        => r = Succeeded(Cardinality(obj[u].mem.labels), {})
                  /\ (cmd[c].op = "max_elements" /\ r.state = "SUCCEEDED")
                        => r = Succeeded(obj[u].mem.max_elements, {})

\* execute has returned FAILED with an exception that is not one of the
\* store's own: the RuntimeError of an add_items with more rows than the
\* index has room for.
C34_Witness ==
    \E c \in Conns :
        /\ st_pc[c] = "returned"
        /\ cmd[c].op = "add_items"
        /\ result[c] = Failed("RuntimeError")

-----------------------------------------------------------------------------
\* C37: in the store that keeps its per-index locks in a map of their own,
\* the names that have a lock are the names in the registry whenever no
\* operation is in progress, after any sequence of create_index,
\* delete_index, save_database and load_database; and add_items,
\* query_index and resize_index on a name that is in the registry never end
\* with IndexDoesNotExist.
C37_LocksMatchRegistry ==
    [][/\ (\A t \in Threads : lg_pc[t] = "idle") => lg_locks = lg_indexes
       /\ \A t \in Threads :
             (/\ lg_pc[t] = "enter" /\ lg_pc'[t] = "exit"
              /\ lg_cmd[t].op \in LockedOps
              /\ lg_cmd[t].name \in lg_indexes)
                => lg_res'[t] # "IndexDoesNotExist"]_vars

-----------------------------------------------------------------------------
\* The operations of the thread-lock store that change the registry or an
\* index.
MutatingOps == {"create_index", "init_index", "delete_index", "add_items", "set_ef",
                "delete_item", "resize_index"}

\* The thread is inside the block of a mutating operation, or inside the
\* block of save_database.
Mutating(t) == lg_cmd[t].op \in MutatingOps /\ lg_pc[t] \in {"enter", "half", "exit"} /\ rw_pc[t] = "reading"
Saving(t) == lg_cmd[t].op = "save_database" /\ lg_pc[t] \in {"enter", "exit"} /\ rw_pc[t] = "writing"

\* C38: in the store that saves the whole registry to one file,
\* save_database never runs while a mutating operation runs: a step that
\* writes the file is taken while no thread is inside a mutating operation,
\* a step of a mutating operation that changes the registry or ends the
\* operation is taken while no thread is inside save_database, and the two
\* are never inside their blocks together; save_database is inside its block
\* as the writer of save_lock and a mutating operation as a reader.
C38_SaveExcludesMutations ==
    [][/\ \A s, m \in Threads : ~(Saving(s) /\ Mutating(m))
       /\ lg_file' # lg_file => \A m \in Threads : ~Mutating(m)
       /\ \A m \in Threads :
             (lg_cmd[m].op \in MutatingOps /\ lg_pc'[m] # lg_pc[m] /\ lg_pc[m] \in {"enter", "half"})
                 => /\ rw_pc[m] = "reading"
                    /\ read_condition.owner = NoThread
                    /\ \A s \in Threads : rw_pc[s] # "writing"
       /\ \A s \in Threads :
             (lg_cmd[s].op = "save_database" /\ lg_pc[s] = "enter" /\ lg_pc'[s] = "exit")
                 => rw_pc[s] = "writing" /\ read_condition.owner = s /\ readers = 0]_vars

\* create_index and add_items are inside their blocks together, the first
\* between its two assignments, while save_database waits for save_lock.
C38_Witness ==
    \E m1, m2, s \in Threads :
        /\ m1 # m2
        /\ Mutating(m1) /\ lg_cmd[m1].op = "create_index" /\ lg_pc[m1] = "half"
        /\ Mutating(m2) /\ lg_cmd[m2].op = "add_items" /\ lg_pc[m2] = "enter"
        /\ lg_cmd[s].op = "save_database" /\ rw_pc[s] = "waiting"


-----------------------------------------------------------------------------
(***************************************************************************)
(* Claims about the life of the server process.                            *)
(***************************************************************************)

Rank(s) == CASE s = "Created" -> 0 [] s = "Listening" -> 1 [] s = "Draining" -> 2 [] OTHER -> 3

\* A step of the handler of SIGTERM / SIGINT.
SignalStep == sv_signals' = sv_signals + 1

InFlight(c) == st_pc[c] \in {"wait", "running", "finished"}

\* C32: the server moves only along Created, Listening, Draining, Closed, one
\* state at a time and never backwards; a signal in Listening is the step to
\* Draining and nothing else leaves Listening for Draining; a signal delivered
\* once the handlers are installed never raises an error, and after a signal
\* the server is eventually Closed.
C32_StateMachine ==
    /\ [][/\ Rank(ServerState') \in {Rank(ServerState), Rank(ServerState) + 1}
          /\ (SignalStep /\ ServerState = "Listening") => ServerState' = "Draining"
          /\ (ServerState = "Listening" /\ ServerState' = "Draining") => SignalStep]_vars
    /\ [](sv_errors = 0)
    /\ (sv_signals > 0) ~> (ServerState = "Closed")

\* C31: once a signal has been delivered no connection is accepted; the
\* manifest store is open as long as a command is executing; and a command
\* that is executing when a signal has been delivered returns, a successful
\* write having committed and written its snapshot.
C31_GracefulShutdown ==
    /\ [][sv_signals > 0 => \A c \in Conns : transport[c] = "none" => transport'[c] = "none"]_vars
    /\ [](\A c \in Conns : InFlight(c) => db_open)
    /\ \A c \in Conns :
          (sv_signals > 0 /\ InFlight(c))
             ~> (/\ st_pc[c] \in {"returned", "crashed"}
                 /\ (result[c].state = "SUCCEEDED" /\ index_context(cmd[c].op) # "read")
                       => /\ Len(st_journal[c]) >= 2
                          /\ SubSeq(st_journal[c], Len(st_journal[c]) - 1, Len(st_journal[c]))
                                = <<"commit", "write_to_path">>)

\* C33: an operation that is executing when its connection is lost returns;
\* a successful write has then committed and written its snapshot; nothing
\* is written to the lost connection; and a command that another connection
\* has in progress is answered.  In particular an operation of a lost
\* connection never waits for a lock while no operation is in progress on
\* the index.
C33_DroppedCommandCompletes ==
    /\ [](\A c \in Conns :
            (transport[c] = "lost" /\ st_pc[c] = "wait" /\ InProgress(target[c]) = {})
               => can_acquire(lock_of(target[c]), index_context(cmd[c].op), c))
    /\ \A c \in Conns :
          (transport[c] = "lost" /\ InFlight(c))
             ~> (/\ st_pc[c] \in {"returned", "crashed"}
                 /\ (result[c].state = "SUCCEEDED" /\ index_context(cmd[c].op) # "read")
                       => /\ Len(st_journal[c]) >= 2
                          /\ SubSeq(st_journal[c], Len(st_journal[c]) - 1, Len(st_journal[c]))
                                = <<"commit", "write_to_path">>)
    /\ [][\A c \in Conns : transport[c] = "lost" => outbox'[c] = outbox[c]]_vars
    /\ \A c \in Conns :
          (transport[c] = "open" /\ InFlight(c) /\ \E d \in Conns : transport[d] = "lost")
             ~> (Len(sent[c]) = Len(received[c]))

=============================================================================
